---- MODULE Spec2Model ----
(***************************************************************************)
(* Checkpoint / rollback engine of Rollback_Agno_Version.                  *)
(*                                                                         *)
(* Two state machines share this module:                                   *)
(*   RegistrySpec - rollback_portocal: ToolRollbackRegistry and the        *)
(*                  AgnoToolkitAdapter (register, record, rollback, redo); *)
(*   Spec         - src/agents + src/database: AgentService, RollbackAgent *)
(*                  and the SQLite repositories (sessions, checkpoints).   *)
(* Each specification leaves the other machine's variables untouched.      *)
(***************************************************************************)
EXTENDS Integers, Sequences, FiniteSets, TLC

VARIABLES
    tools,              \* ToolRollbackRegistry._tools : name -> registered spec
    track,              \* ToolRollbackRegistry._track : list of records
    regLast,            \* what the last registry call did and returned
    internal_sessions,  \* table internal_sessions : id -> row
    checkpoints,        \* table checkpoints : id -> row
    external_sessions,  \* table external_sessions : id -> user_id and JSON data column
    users,              \* table users : id -> row
    nextUserId,         \* AUTOINCREMENT of users
    registering,        \* AuthService.register under way in each caller: the
                        \* position it is at and its arguments
    creating,           \* InternalSessionRepository.create under way in each
                        \* caller: the position it is at and the session
    nextInternalId,     \* AUTOINCREMENT of internal_sessions
    nextCheckpointId,   \* AUTOINCREMENT of checkpoints
    now,                \* datetime.now()
    current_agent,      \* AgentService.current_agent (a RollbackAgent or NoAgent)
    pc,                 \* "idle", or "running" inside RollbackAgent.run
    trackPos,           \* checkpoint id -> length of the agent's Track when it was made
    forkedFrom,         \* internal session id -> the session it was forked from (NoId: none)
    last,               \* what the last service call did and returned
    steps,              \* calls made so far on the service and on the agent
    turn,               \* the run under way or last made: the store when it began,
                        \* the history it injected, whether a caller tool fired,
                        \* the rollback it requested and that was not reported yet
    retained,           \* a RollbackAgent the caller still holds (or NoAgent)
    retained_pc,        \* "idle", or "running" inside run of the agent held
    agent_session_state, \* session_state of the agent of src/rollback_agent
    tool_called         \* what the last checkpoint tool call did and returned

regVars == <<tools, track, regLast>>
dbVars == <<internal_sessions, checkpoints, external_sessions,
            nextInternalId, nextCheckpointId>>
callerVars == <<nextUserId, registering, creating>>
toolVars == <<agent_session_state, tool_called>>
serviceVars == <<dbVars, users, callerVars, now, current_agent, pc, trackPos, forkedFrom, last, steps, turn, retained,
                retained_pc>>
svcVars == <<serviceVars, toolVars>>
vars == <<regVars, svcVars>>

None == "None"

----------------------------------------------------------------------------
(* Bounds of the model *)

MaxTrackLen == 4        \* records in a registry Track
MaxSessions == 3        \* rows ever inserted into internal_sessions
MaxCheckpoints == 5     \* rows ever inserted into checkpoints
MaxMessages == 6        \* entries of one conversation history
MaxTime == 2            \* clock readings
MaxAgentTrack == 2      \* records in an agent's Track
MaxSteps == 7           \* calls made on the service and on the agent
MaxUsers == 3           \* rows ever inserted into users

----------------------------------------------------------------------------
(* rollback_portocal/protocol.py *)

CHECKPOINT_TOOL_NAMES ==
    {"save_checkpoint", "checkpoint", "create_checkpoint_tool",
     "list_checkpoints_tool", "rollback_to_checkpoint_tool",
     "delete_checkpoint_tool", "get_checkpoint_info_tool",
     "cleanup_auto_checkpoints_tool"}

\* Tool names the registry is exercised with: a caller tool and a reserved
\* checkpoint tool.
RegToolNames == {"create_file", "create_checkpoint_tool"}

\* A registered ToolSpec is represented by whether it carries a reverse.
NoSpec == "unregistered"
SpecWithReverse == "forward+reverse"
SpecForwardOnly == "forward"

\* ToolSpec.validate: TRUE when it raises ValueError.
ValidateRaises(name, hasReverse) ==
    name \notin CHECKPOINT_TOOL_NAMES /\ ~hasReverse

ToolInvocationRecord(name, args, result, success, error) ==
    [tool_name |-> name, args |-> args, result |-> result,
     success |-> success, error_message |-> error]

ReverseInvocationResult(name, ok, error) ==
    [tool_name |-> name, reversed_successfully |-> ok, error_message |-> error]

----------------------------------------------------------------------------
(* rollback_portocal/registry.py *)

\* Variant of RegisterTool: the spec is stored without being validated.
RegisterTool_Unvalidated(tls, name, hasReverse) ==
    [tls EXCEPT ![name] = IF hasReverse THEN SpecWithReverse ELSE SpecForwardOnly]

\* ToolRollbackRegistry.register_tool: the registry after the call (validate
\* raises before the assignment).
RegisterTool(tls, name, hasReverse) ==
    IF ValidateRaises(name, hasReverse) THEN tls
    ELSE [tls EXCEPT ![name] =
            IF hasReverse THEN SpecWithReverse ELSE SpecForwardOnly]

\* ToolRollbackRegistry.record_invocation
RecordInvocation(trk, name, args, result, success, error) ==
    Append(trk, ToolInvocationRecord(name, args, result, success, error))

\* The positions of trk at which rollback() calls a reverse handler.
ReverseInvoked(trk, tls) ==
    {i \in 1..Len(trk) :
        /\ trk[i].tool_name \notin CHECKPOINT_TOOL_NAMES
        /\ tls[trk[i].tool_name] = SpecWithReverse}

\* Variant of RollbackWalk: the walk goes from the oldest record to the newest.
RECURSIVE RollbackWalk_Ascending(_, _, _, _)
RollbackWalk_Ascending(trk, tls, throws, i) ==
    IF i = 0 THEN [results |-> <<>>, calls |-> <<>>]
    ELSE LET record == trk[i]
             rest == RollbackWalk_Ascending(trk, tls, throws, i - 1)
         IN  IF record.tool_name \in CHECKPOINT_TOOL_NAMES THEN rest
             ELSE IF tls[record.tool_name] # SpecWithReverse
             THEN [results |-> Append(rest.results,
                        ReverseInvocationResult(record.tool_name, FALSE,
                                                "No reverse handler registered")),
                   calls |-> rest.calls]
             ELSE [results |-> Append(rest.results,
                        ReverseInvocationResult(record.tool_name, i \notin throws,
                            IF i \in throws THEN "error" ELSE None)),
                   calls |-> Append(rest.calls, i)]

\* Variant of RollbackWalk: the walk stops at the first reverse handler that
\* raises.
RECURSIVE RollbackWalk_AbortOnThrow(_, _, _, _)
RollbackWalk_AbortOnThrow(trk, tls, throws, i) ==
    IF i = 0 THEN [results |-> <<>>, calls |-> <<>>]
    ELSE LET record == trk[i]
             rest == RollbackWalk_AbortOnThrow(trk, tls, throws, i - 1)
         IN  IF record.tool_name \in CHECKPOINT_TOOL_NAMES THEN rest
             ELSE IF tls[record.tool_name] # SpecWithReverse
             THEN [results |-> <<ReverseInvocationResult(record.tool_name, FALSE,
                                    "No reverse handler registered")>> \o rest.results,
                   calls |-> rest.calls]
             ELSE IF i \in throws
             THEN [results |-> <<ReverseInvocationResult(record.tool_name, FALSE,
                                                         "error")>>,
                   calls |-> <<i>>]
             ELSE [results |-> <<ReverseInvocationResult(record.tool_name, TRUE,
                                                         None)>> \o rest.results,
                   calls |-> <<i>> \o rest.calls]

\* The loop of ToolRollbackRegistry.rollback, "for record in reversed(_track)",
\* from position i down to position 1.  throws is the set of positions whose
\* reverse handler raises.  results is the returned list; calls lists, in
\* call order, the positions whose reverse handler was invoked.
RECURSIVE RollbackWalk(_, _, _, _)
RollbackWalk(trk, tls, throws, i) ==
    IF i = 0 THEN [results |-> <<>>, calls |-> <<>>]
    ELSE LET record == trk[i]
             rest == RollbackWalk(trk, tls, throws, i - 1)
         IN  IF record.tool_name \in CHECKPOINT_TOOL_NAMES THEN rest
             ELSE IF tls[record.tool_name] # SpecWithReverse
             THEN [results |-> <<ReverseInvocationResult(record.tool_name, FALSE,
                                    "No reverse handler registered")>> \o rest.results,
                   calls |-> rest.calls]
             ELSE [results |-> <<ReverseInvocationResult(record.tool_name,
                                    i \notin throws,
                                    IF i \in throws THEN "error" ELSE None)>>
                               \o rest.results,
                   calls |-> <<i>> \o rest.calls]

\* ToolRollbackRegistry.rollback leaves self._track as it is.
TrackAfterRollback(trk) == trk

\* Variant of RedoWalk: the records of checkpoint tools are passed over.
RECURSIVE RedoWalk_SkipsCheckpointTools(_, _, _, _)
RedoWalk_SkipsCheckpointTools(snap, tls, throws, i) ==
    IF i > Len(snap) THEN [new_records |-> <<>>, calls |-> <<>>]
    ELSE LET record == snap[i]
             rest == RedoWalk_SkipsCheckpointTools(snap, tls, throws, i + 1)
         IN  IF \/ tls[record.tool_name] = NoSpec
                \/ record.tool_name \in CHECKPOINT_TOOL_NAMES
             THEN rest
             ELSE [new_records |->
                      <<IF i \in throws
                        THEN ToolInvocationRecord(record.tool_name, record.args,
                                                  None, FALSE, "error")
                        ELSE ToolInvocationRecord(record.tool_name, record.args,
                                                  "result", TRUE, None)>>
                      \o rest.new_records,
                   calls |-> <<i>> \o rest.calls]

\* The loop of ToolRollbackRegistry.redo, "for record in list(self._track)",
\* from position i of the copy snap up to its end.  new_records is the
\* returned list (each is also appended to the Track); calls lists, in call
\* order, the positions whose forward handler was invoked.
RECURSIVE RedoWalk(_, _, _, _)
RedoWalk(snap, tls, throws, i) ==
    IF i > Len(snap) THEN [new_records |-> <<>>, calls |-> <<>>]
    ELSE LET record == snap[i]
             rest == RedoWalk(snap, tls, throws, i + 1)
         IN  IF tls[record.tool_name] = NoSpec THEN rest
             ELSE [new_records |->
                      <<IF i \in throws
                        THEN ToolInvocationRecord(record.tool_name, record.args,
                                                  None, FALSE, "error")
                        ELSE ToolInvocationRecord(record.tool_name, record.args,
                                                  "result", TRUE, None)>>
                      \o rest.new_records,
                   calls |-> <<i>> \o rest.calls]

ForwardInvoked(trk, tls) ==
    {i \in 1..Len(trk) : tls[trk[i].tool_name] # NoSpec}

\* What a registry call did: results is what it returned, calls the positions
\* whose handler it invoked (in call order), throws the positions whose
\* handler raised, len_before the length of the Track when it was called.
RegReturn(op, raised, results, calls, lenBefore) ==
    [op |-> op, raised |-> raised, results |-> results, calls |-> calls,
     throws |-> {}, len_before |-> lenBefore,
     name |-> None, has_reverse |-> FALSE]

RegInit ==
    /\ tools = [n \in RegToolNames |-> NoSpec]
    /\ track = <<>>
    /\ regLast = RegReturn("init", FALSE, <<>>, <<>>, 0)

\* registry.register_tool(ToolSpec(name, forward, reverse))
RegRegisterTool ==
    \E name \in RegToolNames, hasReverse \in BOOLEAN :
        /\ tools' = RegisterTool(tools, name, hasReverse)
        /\ regLast' = [RegReturn("register_tool",
                                 ValidateRaises(name, hasReverse),
                                 <<>>, <<>>, Len(track))
                           EXCEPT !.name = name, !.has_reverse = hasReverse]
        /\ UNCHANGED <<track, svcVars>>

\* AgnoToolkitAdapter.register_tools([name], reverse_map): the reverse of a
\* checkpoint tool is dropped before registration.
RegAdapterRegister ==
    \E name \in RegToolNames, inMap \in BOOLEAN :
        LET hasReverse == IF name \in CHECKPOINT_TOOL_NAMES THEN FALSE ELSE inMap
        IN  /\ tools' = RegisterTool(tools, name, hasReverse)
            /\ regLast' = [RegReturn("register_tools",
                                     ValidateRaises(name, hasReverse),
                                     <<>>, <<>>, Len(track))
                               EXCEPT !.name = name, !.has_reverse = hasReverse]
            /\ UNCHANGED <<track, svcVars>>

\* registry.record_invocation(name, args, result, success, error_message)
RegRecordInvocation ==
    \E name \in RegToolNames, success \in BOOLEAN :
        /\ Len(track) < MaxTrackLen
        /\ track' = RecordInvocation(track, name, "args",
                        IF success THEN "result" ELSE None, success,
                        IF success THEN None ELSE "error")
        /\ regLast' = RegReturn("record_invocation", FALSE, <<>>, <<>>, Len(track))
        /\ UNCHANGED <<tools, svcVars>>

\* AgnoToolkitAdapter.execute_and_record(name, args)
RegExecuteAndRecord ==
    \E name \in RegToolNames, forwardThrows \in BOOLEAN :
        /\ Len(track) < MaxTrackLen
        /\ IF tools[name] = NoSpec
           THEN /\ track' = track
                /\ regLast' = RegReturn("execute_and_record", TRUE, <<>>, <<>>,
                                        Len(track))
           ELSE /\ track' = IF forwardThrows
                            THEN RecordInvocation(track, name, "args", None,
                                                  FALSE, "error")
                            ELSE RecordInvocation(track, name, "args", "result",
                                                  TRUE, None)
                /\ regLast' = RegReturn("execute_and_record", forwardThrows,
                                        <<>>, <<>>, Len(track))
        /\ UNCHANGED <<tools, svcVars>>

\* registry.clear_track()
RegClearTrack ==
    /\ track' = <<>>
    /\ regLast' = RegReturn("clear_track", FALSE, <<>>, <<>>, Len(track))
    /\ UNCHANGED <<tools, svcVars>>

\* registry.rollback()
RegRollback ==
    \E throws \in SUBSET ReverseInvoked(track, tools) :
        LET w == RollbackWalk(track, tools, throws, Len(track))
        IN  /\ track' = TrackAfterRollback(track)
            /\ regLast' = [RegReturn("rollback", FALSE, w.results, w.calls,
                                     Len(track)) EXCEPT !.throws = throws]
            /\ UNCHANGED <<tools, svcVars>>

\* registry.redo()
RegRedo ==
    \E throws \in SUBSET ForwardInvoked(track, tools) :
        LET w == RedoWalk(track, tools, throws, 1)
        IN  /\ Len(track) + Len(w.new_records) <= MaxTrackLen
            /\ track' = track \o w.new_records
            /\ regLast' = [RegReturn("redo", FALSE, w.new_records, w.calls,
                                     Len(track)) EXCEPT !.throws = throws]
            /\ UNCHANGED <<tools, svcVars>>

RegNext ==
    \/ RegRegisterTool
    \/ RegAdapterRegister
    \/ RegRecordInvocation
    \/ RegExecuteAndRecord
    \/ RegClearTrack
    \/ RegRollback
    \/ RegRedo

----------------------------------------------------------------------------
(* Values stored by the session layer *)

ExtIds == {1, 2}                 \* rows of external_sessions (created beforehand)
UserIds == {1, 2}                \* rows of users; external session e is of user e
Procs == {1, 2}                  \* callers running at the same time

\* User.hash_password: the SHA256 digest of the password
HashPassword(password) == <<"sha256", password>>

\* A row of users as UserRepository.save inserts it
User(username, password, isAdmin, ts) ==
    [username |-> username, password_hash |-> HashPassword(password),
     is_admin |-> isAdmin, created_at |-> ts, last_login |-> None]

\* UserRepository._init_db: the account rootusr, an admin, password "1234"
RootUser == User("rootusr", "1234", TRUE, 1)

\* The users before the service starts: rootusr, and alice who registered.
UsersBeforehand == (1 :> RootUser) @@ (2 :> User("alice", "secret", FALSE, 1))

\* No register call is under way.
NotRegistering == [p \in Procs |-> [pc |-> "idle", username |-> None, password |-> None]]
Names == {"A", "9"}              \* names given to manual checkpoints
LookupNames == Names \cup {"a", "after create_file"}   \* names the model asks a rollback to
Utterances == {"hello"}          \* user messages
CallerTools == {"create_file"}   \* tools=[...] passed by the caller
KeepLatest == {0, 1}             \* keep_latest given to cleanup_auto_checkpoints_tool

Absent == "absent"               \* a key that a dict does not hold
NoId == 0                        \* Python None where an id is expected

\* No create call is under way.
NotCreating == [p \in Procs |-> [pc |-> "idle", external_session_id |-> NoId]]

\* agent.session_state / InternalSession.session_state: the two keys the
\* engine itself writes.
EmptyState == [rollback_requested |-> Absent, rollback_checkpoint_id |-> NoId]

\* dict.update(new) as used by InternalSession.update_state
UpdateState(old, new) ==
    [rollback_requested |->
        IF new.rollback_requested # Absent THEN new.rollback_requested
        ELSE old.rollback_requested,
     rollback_checkpoint_id |->
        IF new.rollback_checkpoint_id # NoId THEN new.rollback_checkpoint_id
        ELSE old.rollback_checkpoint_id]

\* InternalSession.add_message
AddMessage(history, role, content, ts) ==
    Append(history, [role |-> role, content |-> content, timestamp |-> ts])

\* uuid4 gives every created internal session its own agno_session_id; the
\* model names it after the row it is stored in.
AgnoId(id) == id

InternalSession(id, ext, state, history, ts, isCurrent, count) ==
    [id |-> id, external_session_id |-> ext, agno_session_id |-> AgnoId(id),
     session_state |-> state, conversation_history |-> history,
     created_at |-> ts, is_current |-> isCurrent, checkpoint_count |-> count]

\* The row written for an InternalSession object (its id is the key).
SessionRow(sess) ==
    [external_session_id |-> sess.external_session_id,
     agno_session_id |-> sess.agno_session_id,
     session_state |-> sess.session_state,
     conversation_history |-> sess.conversation_history,
     created_at |-> sess.created_at,
     is_current |-> sess.is_current,
     checkpoint_count |-> sess.checkpoint_count]

\* InternalSessionRepository._row_to_session
RowToSession(tbl, id) ==
    [id |-> id,
     external_session_id |-> tbl[id].external_session_id,
     agno_session_id |-> tbl[id].agno_session_id,
     session_state |-> tbl[id].session_state,
     conversation_history |-> tbl[id].conversation_history,
     created_at |-> tbl[id].created_at,
     is_current |-> tbl[id].is_current,
     checkpoint_count |-> tbl[id].checkpoint_count]

\* Variant of MarkAllNotCurrent: no row is touched.
MarkAllNotCurrent_Noop(tbl, ext, exclude) == tbl

\* InternalSessionRepository._mark_all_not_current (exclude = NoId: none)
MarkAllNotCurrent(tbl, ext, exclude) ==
    [i \in DOMAIN tbl |->
        IF tbl[i].external_session_id = ext /\ (exclude = NoId \/ i # exclude)
        THEN [tbl[i] EXCEPT !.is_current = FALSE]
        ELSE tbl[i]]

\* Variant of SessionCreate: the current row of the external session is
\* overwritten instead of a row being inserted.
SessionCreate_InPlace(tbl, id, sess) ==
    LET old == {i \in DOMAIN tbl :
                   tbl[i].external_session_id = sess.external_session_id
                   /\ tbl[i].is_current}
    IN  IF old = {} THEN tbl @@ (id :> SessionRow(sess))
        ELSE [i \in DOMAIN tbl |->
                 IF i \in old
                 THEN [tbl[i] EXCEPT !.session_state = sess.session_state,
                                     !.conversation_history = sess.conversation_history]
                 ELSE tbl[i]]

\* InternalSessionRepository.create: the table after inserting sess as row id
SessionCreate(tbl, id, sess) ==
    LET cleared == IF sess.is_current
                   THEN MarkAllNotCurrent(tbl, sess.external_session_id, NoId)
                   ELSE tbl
    IN  cleared @@ (id :> SessionRow(sess))

\* InternalSessionRepository.update
SessionUpdate(tbl, sess) ==
    IF sess.id = NoId THEN tbl
    ELSE LET cleared == IF sess.is_current
                        THEN MarkAllNotCurrent(tbl, sess.external_session_id, sess.id)
                        ELSE tbl
         IN  IF sess.id \in DOMAIN cleared
             THEN [cleared EXCEPT ![sess.id] =
                      [@ EXCEPT !.session_state = sess.session_state,
                                !.conversation_history = sess.conversation_history,
                                !.is_current = sess.is_current,
                                !.checkpoint_count = sess.checkpoint_count]]
             ELSE cleared

\* InternalSessionRepository.get_current_session: the ids the query
\* "WHERE external_session_id = ? AND is_current = 1 LIMIT 1" may return.
CurrentSessions(tbl, ext) ==
    {i \in DOMAIN tbl : tbl[i].external_session_id = ext /\ tbl[i].is_current}

\* A row of external_sessions as ExternalSessionRepository.create stores it
\* for a user: no internal session yet.
ExternalSession(user_id) ==
    [user_id |-> user_id, internal_session_ids |-> <<>>,
     current_internal_session_id |-> NoId]

\* ExternalSession.add_internal_session through
\* ExternalSessionRepository.add_internal_session
AddInternalSession(exts, ext, agno) ==
    IF ext \notin DOMAIN exts THEN exts
    ELSE IF \E k \in 1..Len(exts[ext].internal_session_ids) :
                exts[ext].internal_session_ids[k] = agno
    THEN exts
    ELSE [exts EXCEPT ![ext].internal_session_ids = Append(@, agno),
                      ![ext].current_internal_session_id = agno]

\* Checkpoint.from_internal_session: metadata holds agno_session_id and
\* checkpoint_count; no other key is written.
CheckpointFromInternalSession(sess, name, isAuto, ts) ==
    [internal_session_id |-> sess.id,
     checkpoint_name |-> name,
     session_state |-> sess.session_state,
     conversation_history |-> sess.conversation_history,
     is_auto |-> isAuto,
     created_at |-> ts,
     metadata |-> [agno_session_id |-> sess.agno_session_id,
                   checkpoint_count |-> sess.checkpoint_count + 1,
                   tool_track_position |-> Absent]]

\* Variant of CheckpointCreate: "INSERT OR REPLACE" keyed by session and name,
\* a snapshot overwrites the earlier snapshot of the same name.
CheckpointCreate_Replace(tbl, id, cp) ==
    [k \in DOMAIN tbl |->
        IF /\ tbl[k].internal_session_id = cp.internal_session_id
           /\ tbl[k].checkpoint_name = cp.checkpoint_name
        THEN cp ELSE tbl[k]] @@ (id :> cp)

\* CheckpointRepository.create
CheckpointCreate(tbl, id, cp) == tbl @@ (id :> cp)

\* CheckpointRepository.get_by_internal_session (auto_only = False): the ids
\* of the rows selected.
CheckpointsOf(tbl, sid) ==
    {k \in DOMAIN tbl : tbl[k].internal_session_id = sid}

\* Variant of NewestFirst: "ORDER BY created_at ASC".
NewestFirst_Ascending(tbl, ids) ==
    {o \in [1..Cardinality(ids) -> ids] :
        /\ \A a, b \in 1..Cardinality(ids) : a # b => o[a] # o[b]
        /\ \A a, b \in 1..Cardinality(ids) :
              a < b => tbl[o[a]].created_at <= tbl[o[b]].created_at}

\* "ORDER BY created_at DESC": the orders in which the rows ids may be
\* returned (rows with equal created_at come in any order).
NewestFirst(tbl, ids) ==
    {o \in [1..Cardinality(ids) -> ids] :
        /\ \A a, b \in 1..Cardinality(ids) : a # b => o[a] # o[b]
        /\ \A a, b \in 1..Cardinality(ids) :
              a < b => tbl[o[a]].created_at >= tbl[o[b]].created_at}

\* CheckpointRepository.delete: the table afterwards ("DELETE ... WHERE id = ?")
CheckpointDelete(tbl, id) == [k \in DOMAIN tbl \ {id} |-> tbl[k]]

\* Variant of DeleteAutoCheckpoints: the oldest rows are the ones kept
\* ("ORDER BY created_at ASC").
DeleteAutoCheckpoints_OldestKept(tbl, sid, keep_latest) ==
    LET autos == {k \in CheckpointsOf(tbl, sid) : tbl[k].is_auto}
        limit == IF keep_latest < Cardinality(autos) THEN keep_latest
                 ELSE Cardinality(autos)
        n == Cardinality(autos)
    IN  {[k \in DOMAIN tbl \ (autos \ {o[n + 1 - i] : i \in 1..limit}) |-> tbl[k]] :
            o \in NewestFirst(tbl, autos)}

\* CheckpointRepository.delete_auto_checkpoints: the tables it may leave.
\* keep_ids are the first keep_latest automatic rows of the session, newest
\* first (rows of equal created_at in any order); every other automatic row
\* of the session is deleted, all of them when keep_ids is empty.
DeleteAutoCheckpoints(tbl, sid, keep_latest) ==
    LET autos == {k \in CheckpointsOf(tbl, sid) : tbl[k].is_auto}
        limit == IF keep_latest < Cardinality(autos) THEN keep_latest
                 ELSE Cardinality(autos)
    IN  {[k \in DOMAIN tbl \ (autos \ {o[i] : i \in 1..limit}) |-> tbl[k]] :
            o \in NewestFirst(tbl, autos)}

----------------------------------------------------------------------------
(* src/agents/rollback_agent.py *)

\* Variant of IsCheckpointTool: no tool counts as a checkpoint tool.
IsCheckpointTool_None(name) == FALSE

\* RollbackAgent._is_checkpoint_tool
IsCheckpointTool(name) ==
    /\ name # None
    /\ name \in {"create_checkpoint_tool", "list_checkpoints_tool",
                 "rollback_to_checkpoint_tool", "delete_checkpoint_tool",
                 "get_checkpoint_info_tool", "cleanup_auto_checkpoints_tool"}

\* A RollbackAgent object.  track is the Track of the agent's own registry.
RollbackAgent(ext, sess, state, restored, restoredHistory, trk) ==
    [external_session_id |-> ext,
     agno_session_id |-> sess.agno_session_id,
     internal_session |-> sess,
     session_state |-> state,
     restored_from_checkpoint |-> restored,
     restored_history |-> restoredHistory,
     tool_was_called |-> FALSE,
     last_tool_called |-> None,
     track |-> trk,
     runs |-> 0]

\* (runs counts the calls of run made on the object.)
HasAgent == current_agent # <<>>
Agent == current_agent[1]

\* checkpoint_hook: what the hook notes before it runs the tool
Hooked(agent, name) ==
    [agent EXCEPT !.tool_was_called = TRUE, !.last_tool_called = name]

\* The recording half of the tool-invocation hook: one record per call.
HookRecord(trk, name, success) ==
    Append(trk, ToolInvocationRecord(name, "args",
                    IF success THEN "result" ELSE None, success,
                    IF success THEN None ELSE "error"))

\* int(checkpoint_id_or_name): the id a name parses to, NoId when int() raises
ParseInt(name) == IF name = "9" THEN 9 ELSE NoId

\* str.lower on the names in use
Lower(name) ==
    IF name = "A" THEN "a"
    ELSE IF name = "After create_file" THEN "after create_file"
    ELSE name

\* rollback_to_checkpoint_tool, lookup by name: the checkpoints the loop
\* "for cp in all_checkpoints" may stop at (the first match, newest first).
FirstNamed(tbl, sid, name) ==
    {k \in CheckpointsOf(tbl, sid) :
        /\ tbl[k].checkpoint_name # None
        /\ Lower(tbl[k].checkpoint_name) = Lower(name)
        /\ \E o \in NewestFirst(tbl, CheckpointsOf(tbl, sid)) :
             \E a \in DOMAIN o :
                /\ o[a] = k
                /\ \A b \in 1..(a - 1) :
                      Lower(tbl[o[b]].checkpoint_name) # Lower(name)}

\* rollback_to_checkpoint_tool: the checkpoints the argument may resolve to
\* (empty: "not found").  An argument int() accepts is looked up by id.
\* arg is [id |-> n, name |-> None] for an integer argument and
\* [id |-> NoId, name |-> s] for a string.
ResolveCheckpoint(tbl, sid, arg) ==
    IF arg.id # NoId
    THEN {k \in DOMAIN tbl : k = arg.id}
    ELSE IF ParseInt(arg.name) # NoId
    THEN {k \in DOMAIN tbl : k = ParseInt(arg.name)}
    ELSE FirstNamed(tbl, sid, arg.name)

\* Variant of CopiedIds: "<" in place of "<=".
CopiedIds_StrictlyOlder(tbl, target) ==
    {k \in CheckpointsOf(tbl, tbl[target].internal_session_id) :
        tbl[k].created_at < tbl[target].created_at}

\* Variant of CopiedIds: only automatic checkpoints are copied.
CopiedIds_ManualDropped(tbl, target) ==
    {k \in CheckpointsOf(tbl, tbl[target].internal_session_id) :
        tbl[k].created_at <= tbl[target].created_at /\ tbl[k].is_auto}

\* RollbackAgent.from_checkpoint, "if cp.created_at <= checkpoint.created_at":
\* the checkpoints of the target's internal session that are copied.
CopiedIds(tbl, target) ==
    {k \in CheckpointsOf(tbl, tbl[target].internal_session_id) :
        tbl[k].created_at <= tbl[target].created_at}

\* RollbackAgent.from_checkpoint: the copy of cp made for internal session sid
CheckpointCopy(cp, sid) ==
    [internal_session_id |-> sid,
     checkpoint_name |-> cp.checkpoint_name,
     session_state |-> cp.session_state,
     conversation_history |-> cp.conversation_history,
     is_auto |-> cp.is_auto,
     created_at |-> cp.created_at,
     metadata |-> cp.metadata]

\* The copy loop of from_checkpoint: order lists the copied checkpoints in
\* the order of the loop; the j-th copy is inserted as row firstId + j - 1.
CopyCheckpoints(tbl, order, sid, firstId) ==
    tbl @@ [k \in firstId..(firstId + Len(order) - 1) |->
               CheckpointCopy(tbl[order[k - firstId + 1]], sid)]

\* Variant of RestoredSession: the new session starts empty.
RestoredSession_Empty(created, cp) ==
    [created EXCEPT !.session_state = EmptyState, !.conversation_history = <<>>]

\* The session seeded from checkpoint cp, as from_checkpoint saves it.
RestoredSession(created, cp) ==
    [created EXCEPT !.session_state = cp.session_state,
                    !.conversation_history = cp.conversation_history]

\* rollback_tools_from_track_index(position), which AgentService calls on the
\* agent: the undo of the records above position, newest first; a failed
\* forward call and a checkpoint tool are skipped.
RECURSIVE RollbackToolsFromTrackIndex(_, _, _, _)
RollbackToolsFromTrackIndex(trk, position, throws, i) ==
    IF i <= position THEN [results |-> <<>>, calls |-> <<>>]
    ELSE LET record == trk[i]
             rest == RollbackToolsFromTrackIndex(trk, position, throws, i - 1)
         IN  IF record.tool_name \in CHECKPOINT_TOOL_NAMES \/ ~record.success
             THEN rest
             ELSE [results |-> <<ReverseInvocationResult(record.tool_name,
                                    i \notin throws,
                                    IF i \in throws THEN "error" ELSE None)>>
                               \o rest.results,
                   calls |-> <<i>> \o rest.calls]

\* What a service call did: op and ok (it returned an agent / True), and for
\* a rollback: the target checkpoint cp, the new internal session new, the
\* agent's Track before the call, the positions whose reverse handler would
\* raise, the positions reversed and the outcomes reported.
Did(op, ok) ==
    [op |-> op, ok |-> ok, ext |-> NoId, cp |-> NoId, new |-> NoId,
     rollback_tools |-> FALSE, had_agent |-> FALSE, track_before |-> <<>>,
     throws |-> {}, reversed |-> <<>>, outcomes |-> <<>>, deleted |-> {},
     create_raised |-> FALSE, sid |-> NoId, keep_latest |-> 0, name |-> None,
     user |-> NoId, enforced |-> FALSE, integrity_error |-> FALSE]

----------------------------------------------------------------------------
(* src/rollback_agent: the checkpoints kept in agent.session_state *)

\* Largest max_checkpoints given to create_rollback_agent (its default is 10)
MaxKept == 2
\* Checkpoints created in one behaviour
MaxCreated == 3
\* Largest message_counter
MaxMessageCounter == 1

\* The first character of str(uuid.uuid4())
UuidHeads == {1, 2}

\* The checkpoint_id a caller may pass: a whole id, or the beginning of one
CheckpointIdArgs ==
    {<<>>} \cup {<<h>> : h \in UuidHeads}
           \cup {<<h, n>> : h \in UuidHeads, n \in 1..MaxCreated}

\* str.startswith; an id starts with itself
StartsWith(s, prefix) ==
    /\ Len(prefix) <= Len(s)
    /\ SubSeq(s, 1, Len(prefix)) = prefix

\* The index the loops of delete_checkpoint and rollback_to_checkpoint stop
\* at: the first entry whose id is or starts with checkpoint_id (0: none)
FirstMatch(list, checkpoint_id) ==
    LET matching == {i \in 1..Len(list) :
                        StartsWith(list[i].checkpoint_id, checkpoint_id)}
    IN  IF matching = {} THEN 0
        ELSE CHOOSE i \in matching : \A j \in matching : i <= j

\* session_state of create_rollback_agent(max_checkpoints=max)
CreateRollbackAgentState(max) ==
    [checkpoints |-> <<>>, message_counter |-> 0, max_checkpoints |-> max,
     rollback_completed |-> FALSE]

\* {k: v for k, v in agent.session_state.items() if k != "checkpoints"}
WithoutCheckpoints(state) ==
    [message_counter |-> state.message_counter,
     max_checkpoints |-> state.max_checkpoints,
     rollback_completed |-> state.rollback_completed]

Evicted_Never(list, max_checkpoints) == list

\* if len(checkpoints) >= max_checkpoints: checkpoints.pop(0)
Evicted(list, max_checkpoints) ==
    IF Len(list) >= max_checkpoints THEN Tail(list) ELSE list

\* list.pop(idx)
Popped(list, idx) ==
    SubSeq(list, 1, idx - 1) \o SubSeq(list, idx + 1, Len(list))

\* No checkpoint tool was called yet; created counts the checkpoints made
NotCalled ==
    [op |-> "none", ok |-> TRUE, checkpoint_id |-> <<>>, index |-> 0, created |-> 0]

----------------------------------------------------------------------------
(* The service machine: src/agents/agent_service.py driving RollbackAgent *)

SvcInit ==
    /\ internal_sessions = <<>>
    /\ checkpoints = <<>>
    /\ external_sessions =
          [e \in ExtIds |-> ExternalSession(e)]
    /\ users = UsersBeforehand
    /\ nextUserId = 3
    /\ agent_session_state = CreateRollbackAgentState(MaxKept)
    /\ tool_called = NotCalled
    /\ registering = NotRegistering
    /\ creating = NotCreating
    /\ nextInternalId = 1
    /\ nextCheckpointId = 1
    /\ now = 1
    /\ current_agent = <<>>
    /\ pc = "idle"
    /\ trackPos = <<>>
    /\ forkedFrom = <<>>
    /\ last = Did("init", TRUE)
    /\ steps = 0
    /\ turn = [checkpoints |-> <<>>, internal_sessions |-> <<>>,
               injected |-> <<>>, fired |-> FALSE, requested |-> NoId]
    /\ retained = <<>>
    /\ retained_pc = "idle"

Init == RegInit /\ SvcInit

\* Time passes between two readings of datetime.now(); the clock is seen to
\* advance while the model is being called.
Tick ==
    /\ pc = "running"
    /\ now < MaxTime
    /\ now' = now + 1
    /\ UNCHANGED <<regVars, toolVars, callerVars, users, retained_pc, dbVars, current_agent, pc, trackPos, forkedFrom, last, steps, turn, retained>>

\* One more call within the budget of the model.
Call ==
    /\ steps < MaxSteps
    /\ steps' = steps + 1

\* RollbackAgent.__init__ with skip_session_creation = False, as
\* AgentService.create_new_agent runs it for external session ext.  (The
\* external sessions are alike: the one that gets the first internal session
\* is called 1.)
NewAgentFor(ext) ==
    LET sess == InternalSession(nextInternalId, ext, EmptyState, <<>>, now, TRUE, 0)
    IN  /\ nextInternalId <= MaxSessions
        /\ ext = 1 \/ internal_sessions # <<>>
        /\ internal_sessions' = SessionCreate(internal_sessions, nextInternalId, sess)
        /\ external_sessions' =
              AddInternalSession(external_sessions, ext, sess.agno_session_id)
        /\ nextInternalId' = nextInternalId + 1
        /\ forkedFrom' = forkedFrom @@ (nextInternalId :> NoId)
        /\ current_agent' = <<RollbackAgent(ext, sess, EmptyState, FALSE, <<>>, <<>>)>>
        /\ UNCHANGED <<checkpoints, nextCheckpointId, trackPos, turn, retained>>

\* AgentService.create_new_agent(external_session_id)
CreateNewAgent ==
    /\ pc = "idle"
    /\ Call
    /\ \E ext \in ExtIds :
        /\ NewAgentFor(ext)
        /\ last' = [Did("create_new_agent", TRUE) EXCEPT !.ext = ext,
                                                          !.new = nextInternalId]
        /\ UNCHANGED <<regVars, toolVars, callerVars, users, retained_pc, now, pc>>

\* AgentService.resume_agent(external_session_id, internal_session_id);
\* sid = NoId stands for internal_session_id = None (an id the store does not
\* hold behaves as the next unused one).
ResumeAgent ==
    /\ pc = "idle"
    /\ Call
    /\ \E ext \in ExtIds,
          sid \in {NoId} \cup DOMAIN internal_sessions \cup {nextInternalId} :
        /\ LET found == IF sid # NoId
                        THEN {i \in DOMAIN internal_sessions : i = sid}
                        ELSE CurrentSessions(internal_sessions, ext)
           IN  IF ext \notin DOMAIN external_sessions
               THEN /\ last' = [Did("resume_agent", FALSE) EXCEPT
                                   !.ext = ext, !.sid = sid]
                    /\ UNCHANGED <<dbVars, current_agent, trackPos, forkedFrom,
                                   turn, retained>>
               ELSE IF found = {}
               THEN /\ NewAgentFor(ext)
                    /\ last' = [Did("resume_agent", TRUE) EXCEPT
                                   !.ext = ext, !.sid = sid,
                                   !.new = nextInternalId]
               ELSE \E i \in found :
                    LET sess == RowToSession(internal_sessions, i)
                    IN  /\ current_agent' =
                              <<RollbackAgent(ext, sess, sess.session_state,
                                              FALSE, <<>>, <<>>)>>
                        /\ last' = [Did("resume_agent", TRUE) EXCEPT
                                       !.ext = ext, !.sid = sid]
                        /\ UNCHANGED <<dbVars, trackPos, forkedFrom, turn, retained>>
        /\ UNCHANGED <<regVars, toolVars, callerVars, users, retained_pc, now, pc>>

\* run, "if self._restored_from_checkpoint and self._restored_history": the
\* messages added to kwargs['messages'] for the model.
InjectedHistory(agent) ==
    IF agent.restored_from_checkpoint /\ agent.restored_history # <<>>
    THEN agent.restored_history ELSE <<>>

\* Variant of RestoredFlagAfterInjection: the flag is left as it was.
RestoredFlagAfterInjection_Kept(agent) == agent.restored_from_checkpoint

\* run, "Clear the flag after injection": _restored_from_checkpoint afterwards
RestoredFlagAfterInjection(agent) ==
    IF agent.restored_from_checkpoint /\ agent.restored_history # <<>>
    THEN FALSE ELSE agent.restored_from_checkpoint

\* RollbackAgent.run, up to the call of the model (lines 170-191)
RunBegin ==
    /\ pc = "idle"
    /\ Call
    /\ \E message \in Utterances :
        /\ HasAgent
        /\ Len(Agent.internal_session.conversation_history) + 2 <= MaxMessages
        /\ current_agent' =
                 <<[Agent EXCEPT
                      !.internal_session.conversation_history =
                          AddMessage(@, "user", message, now),
                      !.restored_from_checkpoint = RestoredFlagAfterInjection(Agent),
                      !.tool_was_called = FALSE,
                      !.last_tool_called = None,
                      !.runs = @ + 1]>>
        /\ turn' = [checkpoints |-> checkpoints,
                    internal_sessions |-> internal_sessions,
                    injected |-> InjectedHistory(Agent),
                    fired |-> FALSE, requested |-> NoId]
        /\ pc' = "running"
        /\ last' = Did("run_begin", TRUE)
        /\ UNCHANGED <<regVars, toolVars, callerVars, users, retained_pc, dbVars, now, trackPos, forkedFrom, retained>>

\* The model calls create_checkpoint_tool(name) through the hook.
ToolCreateCheckpoint ==
    /\ pc = "running"
    /\ Call
    /\ \E name \in Names :
        /\ nextCheckpointId <= MaxCheckpoints
        /\ LET agent == Hooked(Agent, "create_checkpoint_tool")
               cp == CheckpointFromInternalSession(agent.internal_session,
                                                   name, FALSE, now)
               sess == [agent.internal_session EXCEPT !.checkpoint_count = @ + 1]
           IN  /\ checkpoints' = CheckpointCreate(checkpoints, nextCheckpointId, cp)
               /\ trackPos' = trackPos @@ (nextCheckpointId :> Len(agent.track))
               /\ internal_sessions' = SessionUpdate(internal_sessions, sess)
               /\ current_agent' = <<[agent EXCEPT !.internal_session = sess]>>
        /\ nextCheckpointId' = nextCheckpointId + 1
        /\ last' = Did("create_checkpoint_tool", TRUE)
        /\ UNCHANGED <<regVars, toolVars, callerVars, users, retained_pc, external_sessions, nextInternalId, now, pc, forkedFrom, turn, retained>>

\* Variant of RequestRollback: the id is stored, the request flag is not set.
RequestRollback_IdOnly(state, id) ==
    [state EXCEPT !.rollback_checkpoint_id = id]

\* rollback_to_checkpoint_tool, "Set rollback flag in session state"
RequestRollback(state, id) ==
    [state EXCEPT !.rollback_requested = "True", !.rollback_checkpoint_id = id]

\* The model calls rollback_to_checkpoint_tool(checkpoint_id_or_name) (an id
\* the store does not hold behaves as the next unused one).
ToolRollbackToCheckpoint ==
    /\ pc = "running"
    /\ Call
    /\ \E arg \in ([id : DOMAIN checkpoints \cup {nextCheckpointId}, name : {None}]
                \cup [id : {NoId}, name : LookupNames]) :
        /\ LET agent == Hooked(Agent, "rollback_to_checkpoint_tool")
               hits == ResolveCheckpoint(checkpoints, agent.internal_session.id, arg)
           IN  IF hits = {}
               THEN /\ current_agent' = <<agent>>
                    /\ last' = [Did("rollback_to_checkpoint_tool", FALSE)
                                   EXCEPT !.name = arg.name]
                    /\ UNCHANGED turn
               ELSE \E k \in hits :
                    /\ current_agent' =
                          <<[agent EXCEPT
                               !.session_state = RequestRollback(@, k)]>>
                    /\ last' = [Did("rollback_to_checkpoint_tool", TRUE)
                                   EXCEPT !.cp = k, !.name = arg.name]
                    /\ turn' = [turn EXCEPT !.requested = k]
        /\ UNCHANGED <<regVars, toolVars, callerVars, users, retained_pc, dbVars, now, pc,
                       trackPos, forkedFrom, retained>>

\* The model calls a tool of the caller through the hook, and the tool
\* returns.
ToolCallerTool ==
    /\ pc = "running"
    /\ Call
    /\ \E name \in CallerTools :
        /\ Len(Agent.track) < MaxAgentTrack
        /\ nextCheckpointId <= MaxCheckpoints
        /\ current_agent' =
              <<[Hooked(Agent, name) EXCEPT
                   !.track = HookRecord(@, name, TRUE)]>>
        /\ turn' = [turn EXCEPT !.fired = TRUE]
        /\ last' = Did("caller_tool", TRUE)
        /\ UNCHANGED <<regVars, toolVars, callerVars, users, retained_pc, dbVars, now, pc, trackPos, forkedFrom, retained>>

\* Variant of OwnCheckpoint: the owner of the checkpoint is not looked at.
OwnCheckpoint_AnySession(tbl, id, sid) == id \in DOMAIN tbl

\* delete_checkpoint_tool: the checkpoint is found and
\* "checkpoint.internal_session_id != self.internal_session.id" is false
OwnCheckpoint(tbl, id, sid) ==
    /\ id \in DOMAIN tbl
    /\ tbl[id].internal_session_id = sid

\* The model calls delete_checkpoint_tool(checkpoint_id): only a checkpoint
\* of the agent's own internal session is deleted (an id the store does not
\* hold behaves as the next unused one).
ToolDeleteCheckpoint ==
    /\ pc = "running"
    /\ Call
    /\ \E checkpoint_id \in DOMAIN checkpoints \cup {nextCheckpointId} :
        LET agent == Hooked(Agent, "delete_checkpoint_tool")
            own == OwnCheckpoint(checkpoints, checkpoint_id,
                                 agent.internal_session.id)
        IN  /\ checkpoints' = IF own THEN CheckpointDelete(checkpoints, checkpoint_id)
                              ELSE checkpoints
            /\ current_agent' = <<agent>>
            /\ last' = [Did("delete_checkpoint_tool", own) EXCEPT
                           !.cp = checkpoint_id,
                           !.deleted = IF own THEN {checkpoint_id} ELSE {}]
    /\ UNCHANGED <<regVars, toolVars, callerVars, users, retained_pc, internal_sessions, external_sessions, nextInternalId,
                   nextCheckpointId, now, pc, trackPos, forkedFrom, turn, retained>>

\* The model calls cleanup_auto_checkpoints_tool(keep_latest)
ToolCleanupAutoCheckpoints ==
    /\ pc = "running"
    /\ Call
    /\ \E keep_latest \in KeepLatest :
        LET agent == Hooked(Agent, "cleanup_auto_checkpoints_tool")
        IN  \E tbl \in DeleteAutoCheckpoints(checkpoints, agent.internal_session.id,
                                             keep_latest) :
              /\ checkpoints' = tbl
              /\ current_agent' = <<agent>>
              /\ last' = [Did("cleanup_auto_checkpoints_tool", TRUE) EXCEPT
                             !.keep_latest = keep_latest,
                             !.deleted = DOMAIN checkpoints \ DOMAIN tbl]
    /\ UNCHANGED <<regVars, toolVars, callerVars, users, retained_pc, internal_sessions, external_sessions, nextInternalId,
                   nextCheckpointId, now, pc, trackPos, forkedFrom, turn, retained>>

\* The name run gives an automatic checkpoint: f"After {last tool called}"
AutoName(tool) == "After " \o tool

\* RollbackAgent.run, from the model's answer to the return (lines 196-214).
\* create_raises: checkpoint_repo.create fails (an sqlite3 error) inside
\* _create_auto_checkpoint; nothing catches it, so run ends there by raising,
\* before checkpoint_count is incremented and before _save_internal_session.
RunEnd ==
    /\ pc = "running"
    /\ Call
    /\ LET answered ==
              [Agent.internal_session EXCEPT
                 !.conversation_history = AddMessage(@, "assistant", "answer", now),
                 !.session_state = UpdateState(@, Agent.session_state)]
           auto == Agent.tool_was_called /\ ~IsCheckpointTool(Agent.last_tool_called)
           cp == CheckpointFromInternalSession(answered,
                     AutoName(Agent.last_tool_called), TRUE, now)
           sess == IF auto THEN [answered EXCEPT !.checkpoint_count = @ + 1]
                   ELSE answered
       IN  \E create_raises \in (IF auto THEN BOOLEAN ELSE {FALSE}) :
             IF create_raises
             THEN /\ current_agent' = <<[Agent EXCEPT !.internal_session = answered]>>
                  /\ last' = [Did("run_end", FALSE) EXCEPT !.create_raised = TRUE]
                  /\ UNCHANGED <<checkpoints, trackPos, nextCheckpointId,
                                 internal_sessions>>
             ELSE /\ checkpoints' = IF auto
                                    THEN CheckpointCreate(checkpoints, nextCheckpointId, cp)
                                    ELSE checkpoints
                  /\ trackPos' = IF auto
                                 THEN trackPos @@ (nextCheckpointId :> Len(Agent.track))
                                 ELSE trackPos
                  /\ nextCheckpointId' = IF auto THEN nextCheckpointId + 1
                                         ELSE nextCheckpointId
                  /\ internal_sessions' = SessionUpdate(internal_sessions, sess)
                  /\ current_agent' = <<[Agent EXCEPT !.internal_session = sess]>>
                  /\ last' = Did("run_end", TRUE)
    /\ pc' = "idle"
    /\ UNCHANGED <<regVars, toolVars, callerVars, users, retained_pc, external_sessions, nextInternalId, now, forkedFrom, turn, retained>>

\* AgentService.handle_agent_response(current agent, response)
HandleAgentResponse ==
    /\ pc = "idle"
    /\ Call
    /\ HasAgent
    /\ IF Agent.session_state.rollback_requested = "True"
          /\ Agent.session_state.rollback_checkpoint_id # NoId
       THEN /\ current_agent' =
                  <<[Agent EXCEPT !.session_state.rollback_requested = "False"]>>
            /\ internal_sessions' =
                  SessionUpdate(internal_sessions, Agent.internal_session)
            /\ last' = [Did("handle_agent_response", TRUE) EXCEPT
                           !.cp = Agent.session_state.rollback_checkpoint_id]
            /\ turn' = [turn EXCEPT !.requested = NoId]
       ELSE /\ last' = Did("handle_agent_response", FALSE)
            /\ UNCHANGED <<current_agent, internal_sessions, turn>>
    /\ UNCHANGED <<regVars, toolVars, callerVars, users, retained_pc, checkpoints,
                   external_sessions, nextInternalId, nextCheckpointId, now, pc,
                   trackPos, forkedFrom, retained>>

\* Variant of RollbackNotFound: the failed rollback leaves the service
\* without a current agent.
RollbackNotFound_DropsAgent ==
    /\ pc = "idle"
    /\ Call
    /\ \E ext \in ExtIds, cpid \in {nextCheckpointId}, rollback_tools \in BOOLEAN :
        /\ cpid \notin DOMAIN checkpoints
        /\ current_agent' = <<>>
        /\ last' = [Did("rollback_to_checkpoint", FALSE) EXCEPT
                       !.ext = ext, !.cp = cpid,
                       !.rollback_tools = rollback_tools,
                       !.had_agent = HasAgent]
        /\ UNCHANGED <<regVars, toolVars, callerVars, users, retained_pc, dbVars, now, pc, trackPos, forkedFrom, turn, retained>>

\* AgentService.rollback_to_checkpoint for a checkpoint id the store does
\* not hold (every such id behaves as the next unused one): from_checkpoint
\* raises ValueError and None is returned.
RollbackNotFound ==
    /\ pc = "idle"
    /\ Call
    /\ \E ext \in ExtIds, cpid \in {nextCheckpointId}, rollback_tools \in BOOLEAN :
        /\ cpid \notin DOMAIN checkpoints
        /\ last' = [Did("rollback_to_checkpoint", FALSE) EXCEPT
                       !.ext = ext, !.cp = cpid,
                       !.rollback_tools = rollback_tools,
                       !.had_agent = HasAgent]
        /\ UNCHANGED <<regVars, toolVars, callerVars, users, retained_pc, dbVars, now, current_agent, pc, trackPos, forkedFrom, turn, retained>>

\* AgentService.rollback_to_checkpoint(ext, cpid, rollback_tools=...) for a
\* stored checkpoint: the tool undo (lines 194-202), then
\* RollbackAgent.from_checkpoint.
RollbackToCheckpoint ==
    /\ pc = "idle"
    /\ Call
    /\ nextInternalId <= MaxSessions
    /\ \E ext \in ExtIds, cpid \in DOMAIN checkpoints, rollback_tools \in BOOLEAN :
         LET target == checkpoints[cpid]
             oldTrack == IF HasAgent THEN Agent.track ELSE <<>>
             position == target.metadata.tool_track_position
             undo == rollback_tools /\ HasAgent /\ position # Absent
             newId == nextInternalId
             created == InternalSession(newId, ext, target.session_state, <<>>,
                                        now, TRUE, 0)
             restored == RestoredSession(created, target)
             copied == CopiedIds(checkpoints, cpid)
         IN
         \E throws \in SUBSET (1..Len(oldTrack)), order \in NewestFirst(checkpoints, copied) :
           LET rev == IF undo
                      THEN RollbackToolsFromTrackIndex(oldTrack, position, throws,
                                                       Len(oldTrack))
                      ELSE [results |-> <<>>, calls |-> <<>>]
               inserted == SessionCreate(internal_sessions, newId, created)
           IN
           /\ nextCheckpointId + Len(order) - 1 <= MaxCheckpoints
           /\ checkpoints' = CopyCheckpoints(checkpoints, order, newId, nextCheckpointId)
           /\ trackPos' = trackPos @@
                 [k \in nextCheckpointId..(nextCheckpointId + Len(order) - 1) |->
                     trackPos[order[k - nextCheckpointId + 1]]]
           /\ nextCheckpointId' = nextCheckpointId + Len(order)
           /\ internal_sessions' = SessionUpdate(inserted, restored)
           /\ external_sessions' =
                 AddInternalSession(external_sessions, ext, created.agno_session_id)
           /\ nextInternalId' = nextInternalId + 1
           /\ forkedFrom' = forkedFrom @@ (newId :> target.internal_session_id)
           /\ current_agent' =
                 <<RollbackAgent(ext, restored, target.session_state, TRUE,
                                 target.conversation_history,
                                 IF undo THEN SubSeq(oldTrack, 1, position) ELSE <<>>)>>
           /\ last' = [Did("rollback_to_checkpoint", TRUE) EXCEPT
                          !.ext = ext, !.cp = cpid, !.new = newId,
                          !.rollback_tools = rollback_tools,
                          !.had_agent = HasAgent,
                          !.track_before = oldTrack,
                          !.throws = throws,
                          !.reversed = rev.calls,
                          !.outcomes = rev.results]
           /\ UNCHANGED <<regVars, toolVars, callerVars, users, retained_pc, now, pc, turn, retained>>

Next ==
    \/ Tick
    \/ CreateNewAgent
    \/ ResumeAgent
    \/ RunBegin
    \/ ToolCreateCheckpoint
    \/ ToolRollbackToCheckpoint
    \/ ToolCallerTool
    \/ ToolDeleteCheckpoint
    \/ ToolCleanupAutoCheckpoints
    \/ RunEnd
    \/ HandleAgentResponse
    \/ RollbackNotFound
    \/ RollbackToCheckpoint

Spec == Init /\ [][Next]_vars

\* The caller keeps the agent a service call returned to it.
RetainAgent ==
    /\ pc = "idle"
    /\ Call
    /\ HasAgent
    /\ retained # current_agent
    /\ retained' = current_agent
    /\ last' = Did("retain_agent", TRUE)
    /\ UNCHANGED <<regVars, toolVars, callerVars, users, retained_pc, dbVars, now, current_agent, pc, trackPos, forkedFrom, turn>>

\* RollbackAgent.run on the agent the caller holds, a turn in which the model
\* calls no tool (lines 170-214): the user message and the answer are added,
\* the state is updated, and the internal session is saved.
RunRetained ==
    /\ pc = "idle"
    /\ Call
    /\ retained # <<>>
    /\ \E message \in Utterances :
        LET agent == retained[1]
            asked == AddMessage(agent.internal_session.conversation_history,
                                "user", message, now)
            sess == [agent.internal_session EXCEPT
                       !.conversation_history = AddMessage(asked, "assistant", "answer", now),
                       !.session_state = UpdateState(@, agent.session_state)]
        IN  /\ Len(agent.internal_session.conversation_history) + 2 <= MaxMessages
            /\ internal_sessions' = SessionUpdate(internal_sessions, sess)
            /\ retained' = <<[agent EXCEPT
                                !.internal_session = sess,
                                !.restored_from_checkpoint =
                                    RestoredFlagAfterInjection(agent),
                                !.tool_was_called = FALSE,
                                !.last_tool_called = None,
                                !.runs = @ + 1]>>
            /\ turn' = [checkpoints |-> checkpoints,
                        internal_sessions |-> internal_sessions,
                        injected |-> InjectedHistory(agent),
                        fired |-> FALSE, requested |-> NoId]
            /\ last' = [Did("run_retained", TRUE) EXCEPT
                           !.ext = agent.internal_session.external_session_id]
    /\ UNCHANGED <<regVars, toolVars, callerVars, users, retained_pc, checkpoints, external_sessions, nextInternalId,
                   nextCheckpointId, now, current_agent, pc, trackPos, forkedFrom>>

HandleNext ==
    \/ Next
    \/ RetainAgent
    \/ RunRetained

\* The service, and a caller that goes on using an agent it was given earlier
HandleSpec == Init /\ [][HandleNext]_vars

\* The service after create_new_agent(1) and one run of its agent in which
\* the model called create_checkpoint_tool("A"): internal session 1 holds the
\* question and the answer, checkpoint 1 the question alone.  The calls are
\* counted from here.
RestoreInit ==
    LET s0 == InternalSession(1, 1, EmptyState, <<>>, 1, TRUE, 0)
        asked == [s0 EXCEPT !.conversation_history =
                                AddMessage(@, "user", "hello", 1)]
        cp == CheckpointFromInternalSession(asked, "A", FALSE, 1)
        counted == [asked EXCEPT !.checkpoint_count = @ + 1]
        done == [counted EXCEPT
                   !.conversation_history = AddMessage(@, "assistant", "answer", 1),
                   !.session_state = UpdateState(@, EmptyState)]
        created == SessionCreate(<<>>, 1, s0)
    IN  /\ RegInit
        /\ internal_sessions = SessionUpdate(created, done)
        /\ checkpoints = CheckpointCreate(<<>>, 1, cp)
        /\ external_sessions =
              AddInternalSession([e \in ExtIds |-> ExternalSession(e)],
                                 1, s0.agno_session_id)
        /\ users = UsersBeforehand
        /\ nextUserId = 3
        /\ agent_session_state = CreateRollbackAgentState(MaxKept)
        /\ tool_called = NotCalled
        /\ registering = NotRegistering
        /\ creating = NotCreating
        /\ nextInternalId = 2
        /\ nextCheckpointId = 2
        /\ now = 1
        /\ current_agent =
              <<[Hooked(RollbackAgent(1, done, EmptyState, FALSE, <<>>, <<>>),
                        "create_checkpoint_tool") EXCEPT !.runs = 1]>>
        /\ pc = "idle"
        /\ trackPos = (1 :> 0)
        /\ forkedFrom = (1 :> NoId)
        /\ last = Did("run_end", TRUE)
        /\ steps = 0
        /\ turn = [checkpoints |-> <<>>, internal_sessions |-> created,
                   injected |-> <<>>, fired |-> FALSE, requested |-> NoId]
        /\ retained = <<>>
        /\ retained_pc = "idle"

\* Rollbacks to stored checkpoints and the turns that follow them
RestoreNext ==
    \/ CreateNewAgent
    \/ ResumeAgent
    \/ RunBegin
    \/ ToolCallerTool
    \/ RunEnd
    \/ RollbackToCheckpoint

RestoreSpec == RestoreInit /\ [][RestoreNext]_vars

\* The service after create_new_agent(1) and two runs of its agent, the
\* second at a later reading of the clock, in each of which the model called
\* create_file: internal session 1 holds two automatic checkpoints.  The
\* calls are counted from here.
PruneInit ==
    LET s0 == InternalSession(1, 1, EmptyState, <<>>, 1, TRUE, 0)
        created == SessionCreate(<<>>, 1, s0)
        answered1 == [s0 EXCEPT
                        !.conversation_history =
                            AddMessage(AddMessage(@, "user", "hello", 1),
                                       "assistant", "answer", 1),
                        !.session_state = UpdateState(@, EmptyState)]
        cp1 == CheckpointFromInternalSession(answered1, AutoName("create_file"),
                                             TRUE, 1)
        sess1 == [answered1 EXCEPT !.checkpoint_count = @ + 1]
        answered2 == [sess1 EXCEPT
                        !.conversation_history =
                            AddMessage(AddMessage(@, "user", "hello", 1),
                                       "assistant", "answer", 2),
                        !.session_state = UpdateState(@, EmptyState)]
        cp2 == CheckpointFromInternalSession(answered2, AutoName("create_file"),
                                             TRUE, 2)
        sess2 == [answered2 EXCEPT !.checkpoint_count = @ + 1]
        saved1 == SessionUpdate(created, sess1)
        table1 == CheckpointCreate(<<>>, 1, cp1)
        trk == HookRecord(HookRecord(<<>>, "create_file", TRUE), "create_file", TRUE)
    IN  /\ RegInit
        /\ internal_sessions = SessionUpdate(saved1, sess2)
        /\ checkpoints = CheckpointCreate(table1, 2, cp2)
        /\ external_sessions =
              AddInternalSession([e \in ExtIds |-> ExternalSession(e)],
                                 1, s0.agno_session_id)
        /\ users = UsersBeforehand
        /\ nextUserId = 3
        /\ agent_session_state = CreateRollbackAgentState(MaxKept)
        /\ tool_called = NotCalled
        /\ registering = NotRegistering
        /\ creating = NotCreating
        /\ nextInternalId = 2
        /\ nextCheckpointId = 3
        /\ now = 2
        /\ current_agent =
              <<[Hooked(RollbackAgent(1, sess2, EmptyState, FALSE, <<>>, trk),
                        "create_file") EXCEPT !.runs = 2]>>
        /\ pc = "idle"
        /\ trackPos = (1 :> 1) @@ (2 :> 2)
        /\ forkedFrom = (1 :> NoId)
        /\ last = Did("run_end", TRUE)
        /\ steps = 0
        /\ turn = [checkpoints |-> table1, internal_sessions |-> saved1,
                   injected |-> <<>>, fired |-> TRUE, requested |-> NoId]
        /\ retained = <<>>
        /\ retained_pc = "idle"

\* Turns with the checkpoint tools, and rollbacks
PruneNext ==
    \/ RunBegin
    \/ ToolCreateCheckpoint
    \/ ToolDeleteCheckpoint
    \/ ToolCleanupAutoCheckpoints
    \/ RunEnd
    \/ RollbackToCheckpoint

PruneSpec == PruneInit /\ [][PruneNext]_vars

\* The rows of table tbl whose ids are in ids
Rows(tbl, ids) == [i \in ids |-> tbl[i]]

\* "ON DELETE CASCADE" of internal_sessions and checkpoints: the rows left
\* when the external sessions exts are the ones left.
CascadeInternalSessions(tbl, exts) ==
    Rows(tbl, {i \in DOMAIN tbl : tbl[i].external_session_id \in DOMAIN exts})

CascadeCheckpoints(tbl, sessions) ==
    Rows(tbl, {k \in DOMAIN tbl : tbl[k].internal_session_id \in DOMAIN sessions})

\* The repositories open their connections with sqlite3.connect and never
\* execute "PRAGMA foreign_keys = ON": whether the FOREIGN KEY clauses are
\* enforced is the default of the SQLite library in use (off, unless it was
\* built with SQLITE_DEFAULT_FOREIGN_KEYS=1).
ForeignKeys == BOOLEAN

DeleteOps == {"delete_user", "delete_external_session"}

\* The library is the same from one call to the next.
ForeignKeysNow ==
    IF last.op \in DeleteOps THEN {last.enforced} ELSE ForeignKeys

\* No row was deleted from users or external_sessions so far.
NothingDeleted == DOMAIN users = UserIds /\ DOMAIN external_sessions = ExtIds

\* UserRepository.delete(user_id)
DeleteUser ==
    /\ pc = "idle"
    /\ Call
    /\ \E user_id \in UserIds, enforced \in ForeignKeysNow :
         LET exts == Rows(external_sessions,
                          {e \in DOMAIN external_sessions :
                              external_sessions[e].user_id # user_id})
             sessions == CascadeInternalSessions(internal_sessions, exts)
         IN  /\ users' = Rows(users, DOMAIN users \ {user_id})
             /\ external_sessions' = IF enforced THEN exts ELSE external_sessions
             /\ internal_sessions' = IF enforced THEN sessions ELSE internal_sessions
             /\ checkpoints' = IF enforced
                               THEN CascadeCheckpoints(checkpoints, sessions)
                               ELSE checkpoints
             /\ last' = [Did("delete_user", user_id \in DOMAIN users) EXCEPT
                            !.user = user_id, !.enforced = enforced]
    /\ UNCHANGED <<regVars, toolVars, callerVars, retained_pc, nextInternalId, nextCheckpointId, now,
                   current_agent, pc, trackPos, forkedFrom, turn, retained>>

\* ExternalSessionRepository.delete(session_id)
DeleteExternalSession ==
    /\ pc = "idle"
    /\ Call
    /\ \E session_id \in ExtIds, enforced \in ForeignKeysNow :
         LET exts == Rows(external_sessions, DOMAIN external_sessions \ {session_id})
             sessions == CascadeInternalSessions(internal_sessions, exts)
         IN  /\ external_sessions' = exts
             /\ internal_sessions' = IF enforced THEN sessions ELSE internal_sessions
             /\ checkpoints' = IF enforced
                               THEN CascadeCheckpoints(checkpoints, sessions)
                               ELSE checkpoints
             /\ last' = [Did("delete_external_session",
                             session_id \in DOMAIN external_sessions) EXCEPT
                            !.ext = session_id, !.enforced = enforced]
    /\ UNCHANGED <<regVars, toolVars, callerVars, users, retained_pc, nextInternalId, nextCheckpointId, now,
                   current_agent, pc, trackPos, forkedFrom, turn, retained>>

\* Agents, their turns and snapshots, and at the end the deletion of users
\* and of external sessions: nothing uses the store after a deletion.
DeleteNext ==
    \/ NothingDeleted /\ CreateNewAgent
    \/ NothingDeleted /\ RunBegin
    \/ NothingDeleted /\ ToolCreateCheckpoint
    \/ NothingDeleted /\ RunEnd
    \/ DeleteUser
    \/ DeleteExternalSession

DeleteSpec == PruneInit /\ [][DeleteNext]_vars

\* The service after create_new_agent(1), whose agent the caller keeps, and
\* resume_agent(1, 1), which made a second agent for internal session 1.
ConcurrentInit ==
    LET s0 == InternalSession(1, 1, EmptyState, <<>>, 1, TRUE, 0)
        created == SessionCreate(<<>>, 1, s0)
        sess == RowToSession(created, 1)
    IN  /\ RegInit
        /\ internal_sessions = created
        /\ checkpoints = <<>>
        /\ external_sessions =
              AddInternalSession([e \in ExtIds |-> ExternalSession(e)],
                                 1, s0.agno_session_id)
        /\ users = UsersBeforehand
        /\ nextUserId = 3
        /\ agent_session_state = CreateRollbackAgentState(MaxKept)
        /\ tool_called = NotCalled
        /\ registering = NotRegistering
        /\ creating = NotCreating
        /\ nextInternalId = 2
        /\ nextCheckpointId = 1
        /\ now = 1
        /\ current_agent =
              <<RollbackAgent(1, sess, sess.session_state, FALSE, <<>>, <<>>)>>
        /\ pc = "idle"
        /\ trackPos = <<>>
        /\ forkedFrom = (1 :> NoId)
        /\ last = [Did("resume_agent", TRUE) EXCEPT !.ext = 1, !.sid = 1]
        /\ steps = 0
        /\ turn = [checkpoints |-> <<>>, internal_sessions |-> <<>>,
                   injected |-> <<>>, fired |-> FALSE, requested |-> NoId]
        /\ retained = <<RollbackAgent(1, s0, EmptyState, FALSE, <<>>, <<>>)>>
        /\ retained_pc = "idle"

\* RollbackAgent.run on the agent the caller holds, called from a thread of
\* its own, up to the call of the model (lines 170-191): nothing is asked of
\* the runs under way.
RetainedRunBegin ==
    /\ retained_pc = "idle"
    /\ Call
    /\ retained # <<>>
    /\ \E message \in Utterances :
        LET agent == retained[1]
        IN  /\ Len(agent.internal_session.conversation_history) + 2 <= MaxMessages
            /\ retained' =
                  <<[agent EXCEPT
                       !.internal_session.conversation_history =
                           AddMessage(@, "user", message, now),
                       !.restored_from_checkpoint = RestoredFlagAfterInjection(agent),
                       !.tool_was_called = FALSE,
                       !.last_tool_called = None,
                       !.runs = @ + 1]>>
            /\ retained_pc' = "running"
            /\ last' = [Did("retained_run_begin", TRUE) EXCEPT
                           !.sid = agent.internal_session.id]
    /\ UNCHANGED <<regVars, toolVars, callerVars, users, dbVars, now, current_agent, pc, trackPos,
                   forkedFrom, turn>>

\* The rest of that run, the model having called no tool (lines 193-214)
RetainedRunEnd ==
    /\ retained_pc = "running"
    /\ Call
    /\ LET agent == retained[1]
           sess == [agent.internal_session EXCEPT
                      !.conversation_history = AddMessage(@, "assistant", "answer", now),
                      !.session_state = UpdateState(@, agent.session_state)]
       IN  /\ retained' = <<[agent EXCEPT !.internal_session = sess]>>
           /\ internal_sessions' = SessionUpdate(internal_sessions, sess)
           /\ last' = [Did("retained_run_end", TRUE) EXCEPT
                          !.sid = agent.internal_session.id]
    /\ retained_pc' = "idle"
    /\ UNCHANGED <<regVars, toolVars, callerVars, users, checkpoints, external_sessions, nextInternalId,
                   nextCheckpointId, now, current_agent, pc, trackPos, forkedFrom,
                   turn>>

\* Two agents of one internal session, each run from its own thread
ConcurrentNext ==
    \/ Tick
    \/ RunBegin
    \/ ToolCallerTool
    \/ RunEnd
    \/ RetainedRunBegin
    \/ RetainedRunEnd

ConcurrentSpec == ConcurrentInit /\ [][ConcurrentNext]_vars

\* Variant of SetCurrentInternalSession: the id is not looked for in the list.
SetCurrentInternalSession_Unchecked(exts, ext, agno) ==
    IF ext \notin DOMAIN exts THEN exts
    ELSE [exts EXCEPT ![ext].current_internal_session_id = agno]

\* ExternalSession.set_current_internal_session through
\* ExternalSessionRepository.set_current_internal_session
SetCurrentInternalSession(exts, ext, agno) ==
    IF ext \notin DOMAIN exts THEN exts
    ELSE IF \E k \in 1..Len(exts[ext].internal_session_ids) :
                exts[ext].internal_session_ids[k] = agno
    THEN [exts EXCEPT ![ext].current_internal_session_id = agno]
    ELSE exts

AgnoIds == 1..MaxSessions        \* agno session ids given to the repository
UnknownExt == 3                  \* an id external_sessions holds no row for

\* ExternalSessionRepository.add_internal_session(external_session_id,
\* agno_session_id): False when the external session is not found.
RepoAddInternalSession ==
    \E ext \in ExtIds \cup {UnknownExt}, agno \in AgnoIds :
        /\ external_sessions' = AddInternalSession(external_sessions, ext, agno)
        /\ last' = [Did("add_internal_session", ext \in DOMAIN external_sessions)
                       EXCEPT !.ext = ext, !.sid = agno]
        /\ UNCHANGED <<regVars, toolVars, callerVars, users, retained_pc, internal_sessions, checkpoints,
                       nextInternalId, nextCheckpointId, now, current_agent, pc,
                       trackPos, forkedFrom, steps, turn, retained>>

\* ExternalSessionRepository.set_current_internal_session(external_session_id,
\* agno_session_id): False when the external session is not found or does not
\* list the id.
RepoSetCurrentInternalSession ==
    \E ext \in ExtIds \cup {UnknownExt}, agno \in AgnoIds :
        /\ external_sessions' =
              SetCurrentInternalSession(external_sessions, ext, agno)
        /\ last' = [Did("set_current_internal_session",
                        /\ ext \in DOMAIN external_sessions
                        /\ \E k \in 1..Len(external_sessions[ext].internal_session_ids) :
                              external_sessions[ext].internal_session_ids[k] = agno)
                       EXCEPT !.ext = ext, !.sid = agno]
        /\ UNCHANGED <<regVars, toolVars, callerVars, users, retained_pc, internal_sessions, checkpoints,
                       nextInternalId, nextCheckpointId, now, current_agent, pc,
                       trackPos, forkedFrom, steps, turn, retained>>

\* The repository of external sessions, called in any order
ExternalNext ==
    \/ RepoAddInternalSession
    \/ RepoSetCurrentInternalSession

ExternalSpec == Init /\ [][ExternalNext]_vars


Usernames == {"rootusr", "alice", "bob", "al"}     \* usernames given to AuthService
Passwords == {"1234", "secret"}                    \* passwords given to AuthService

\* len() of the strings above
StringLength ==
    ("rootusr" :> 7) @@ ("alice" :> 5) @@ ("bob" :> 3) @@ ("al" :> 2)
    @@ ("1234" :> 4) @@ ("secret" :> 6)

\* validators.validate_username: 3 to 30 characters (the names above all
\* begin with a letter and hold only letters)
ValidUsername(username) ==
    StringLength[username] >= 3 /\ StringLength[username] <= 30

\* validators.validate_password: longer than 4 characters (none of the
\* passwords above begins or ends with a space)
ValidPassword(password) == StringLength[password] > 4

\* UserRepository.find_by_username: the ids of the rows with this username
FindByUsername(tbl, username) ==
    {u \in DOMAIN tbl : tbl[u].username = username}

\* User.verify_password
VerifyPassword(row, password) == row.password_hash = HashPassword(password)

\* Variant of InsertRaises: username is not declared UNIQUE.
InsertRaises_NotUnique(tbl, username) == FALSE

\* "username TEXT UNIQUE NOT NULL": the INSERT of UserRepository.save raises
\* sqlite3.IntegrityError when a row has the username.
InsertRaises(tbl, username) == FindByUsername(tbl, username) # {}

\* Variant of DeleteRefused: the requester need not be an admin.
DeleteRefused_NoAdminCheck(tbl, admin_user_id, target_username) ==
    \/ FindByUsername(tbl, target_username) = {}
    \/ target_username = "rootusr"
    \/ admin_user_id \in FindByUsername(tbl, target_username)

\* AuthService.delete_user, the checks before the deletion: whether one of
\* them returns False
DeleteRefused(tbl, admin_user_id, target_username) ==
    \/ admin_user_id \notin DOMAIN tbl
    \/ ~tbl[admin_user_id].is_admin
    \/ FindByUsername(tbl, target_username) = {}
    \/ target_username = "rootusr"
    \/ admin_user_id \in FindByUsername(tbl, target_username)

\* What AuthService did for a caller: requester, username, whether INSERT raised
AuthDid(op, ok, user, username) ==
    [Did(op, ok) EXCEPT !.user = user, !.name = username]

authFrame == <<regVars, toolVars, dbVars, creating, retained_pc, now, current_agent, pc, trackPos,
               forkedFrom, steps, turn, retained>>

\* AuthService.register, up to the availability check (lines 71-80): caller p
\* goes on to the insert when the data are valid and the username is free.
AuthRegisterCheck(p) ==
    /\ registering[p].pc = "idle"
    /\ \E username \in Usernames, password \in Passwords :
         IF /\ ValidUsername(username) /\ ValidPassword(password)
            /\ FindByUsername(users, username) = {}
         THEN /\ registering' = [registering EXCEPT ![p] =
                    [pc |-> "checked", username |-> username, password |-> password]]
              /\ last' = AuthDid("register_check", TRUE, NoId, username)
         ELSE /\ last' = AuthDid("register", FALSE, NoId, username)
              /\ UNCHANGED registering
    /\ UNCHANGED <<authFrame, users, nextUserId>>

\* AuthService.register, the insert (lines 82-98): IntegrityError gives False.
AuthRegisterInsert(p) ==
    /\ registering[p].pc = "checked"
    /\ LET username == registering[p].username
           raised == InsertRaises(users, username)
       IN  /\ raised \/ nextUserId <= MaxUsers
           /\ users' = IF raised THEN users
                       ELSE users @@ (nextUserId :>
                               User(username, registering[p].password, FALSE, now))
           /\ nextUserId' = IF raised THEN nextUserId ELSE nextUserId + 1
           /\ last' = [AuthDid("register", ~raised, NoId, username)
                          EXCEPT !.integrity_error = raised]
    /\ registering' = [registering EXCEPT ![p] = NotRegistering[p]]
    /\ UNCHANGED authFrame

\* AuthService.login(username, password)
AuthLogin ==
    /\ \E username \in Usernames, password \in Passwords :
         LET found == FindByUsername(users, username)
         IN  IF \E u \in found : VerifyPassword(users[u], password)
             THEN \E u \in found :
                    /\ VerifyPassword(users[u], password)
                    /\ users' = [users EXCEPT ![u].last_login = now]
                    /\ last' = AuthDid("login", TRUE, u, username)
             ELSE /\ last' = AuthDid("login", FALSE, NoId, username)
                  /\ UNCHANGED users
    /\ UNCHANGED <<authFrame, callerVars>>

\* AuthService.change_password(user_id, current_password, new_password)
AuthChangePassword ==
    /\ \E user_id \in 1..MaxUsers, current \in Passwords, new \in Passwords :
         IF /\ user_id \in DOMAIN users
            /\ VerifyPassword(users[user_id], current)
            /\ ValidPassword(new)
         THEN /\ users' = [users EXCEPT ![user_id].password_hash = HashPassword(new)]
              /\ last' = AuthDid("change_password", TRUE, user_id, None)
         ELSE /\ last' = AuthDid("change_password", FALSE, user_id, None)
              /\ UNCHANGED users
    /\ UNCHANGED <<authFrame, callerVars>>

\* AuthService.reset_admin_password(current_password, new_password)
AuthResetAdminPassword ==
    /\ \E current \in Passwords, new \in Passwords :
         LET found == FindByUsername(users, "rootusr")
         IN  IF /\ \E u \in found : VerifyPassword(users[u], current)
                /\ ValidPassword(new)
             THEN \E u \in found :
                    /\ users' = [users EXCEPT ![u].password_hash = HashPassword(new)]
                    /\ last' = AuthDid("reset_admin_password", TRUE, u, "rootusr")
             ELSE /\ last' = AuthDid("reset_admin_password", FALSE, NoId, "rootusr")
                  /\ UNCHANGED users
    /\ UNCHANGED <<authFrame, callerVars>>

\* AuthService.delete_user(admin_user_id, target_username)
AuthDeleteUser ==
    /\ \E admin_user_id \in 1..MaxUsers, target_username \in Usernames :
         IF DeleteRefused(users, admin_user_id, target_username)
         THEN /\ last' = AuthDid("auth_delete_user", FALSE, admin_user_id,
                                 target_username)
              /\ UNCHANGED users
         ELSE /\ users' = Rows(users, DOMAIN users
                                        \ FindByUsername(users, target_username))
              /\ last' = AuthDid("auth_delete_user", TRUE, admin_user_id,
                                 target_username)
    /\ UNCHANGED <<authFrame, callerVars>>

\* The accounts: two callers registering, and the other calls one at a time
AuthNext ==
    \/ \E p \in Procs : AuthRegisterCheck(p)
    \/ \E p \in Procs : AuthRegisterInsert(p)
    \/ AuthLogin
    \/ AuthChangePassword
    \/ AuthResetAdminPassword
    \/ AuthDeleteUser

\* The database as the repositories make it: the account rootusr, no session
AuthInit ==
    /\ RegInit
    /\ internal_sessions = <<>>
    /\ checkpoints = <<>>
    /\ external_sessions = <<>>
    /\ users = (1 :> RootUser)
    /\ nextUserId = 2
    /\ agent_session_state = CreateRollbackAgentState(MaxKept)
    /\ tool_called = NotCalled
    /\ registering = NotRegistering
    /\ creating = NotCreating
    /\ nextInternalId = 1
    /\ nextCheckpointId = 1
    /\ now = 1
    /\ current_agent = <<>>
    /\ pc = "idle"
    /\ trackPos = <<>>
    /\ forkedFrom = <<>>
    /\ last = Did("init", TRUE)
    /\ steps = 0
    /\ turn = [checkpoints |-> <<>>, internal_sessions |-> <<>>,
               injected |-> <<>>, fired |-> FALSE, requested |-> NoId]
    /\ retained = <<>>
    /\ retained_pc = "idle"

AuthSpec == AuthInit /\ [][AuthNext]_vars


\* InternalSessionRepository.create(session) for a new current session of
\* external session ext, up to the end of _mark_all_not_current (lines 80-85):
\* the rows are marked in a transaction of their own.
CreateMarkAllNotCurrent(p) ==
    /\ creating[p].pc = "idle"
    /\ \E ext \in ExtIds :
        /\ internal_sessions' = MarkAllNotCurrent(internal_sessions, ext, NoId)
        /\ creating' = [creating EXCEPT ![p] =
                           [pc |-> "marked", external_session_id |-> ext]]
        /\ last' = [Did("create_mark", TRUE) EXCEPT !.ext = ext]
    /\ UNCHANGED <<regVars, toolVars, users, nextUserId, registering, retained_pc, checkpoints,
                   external_sessions, nextInternalId, nextCheckpointId, now,
                   current_agent, pc, trackPos, forkedFrom, steps, turn, retained>>

\* The rest of that call: the INSERT, in a second transaction (lines 87-110)
CreateInsert(p) ==
    /\ creating[p].pc = "marked"
    /\ nextInternalId <= MaxSessions
    /\ LET ext == creating[p].external_session_id
           sess == InternalSession(nextInternalId, ext, EmptyState, <<>>, now, TRUE, 0)
       IN  /\ internal_sessions' = internal_sessions @@ (nextInternalId :> SessionRow(sess))
           /\ last' = [Did("create_insert", TRUE) EXCEPT !.ext = ext,
                                                         !.new = nextInternalId]
    /\ nextInternalId' = nextInternalId + 1
    /\ creating' = [creating EXCEPT ![p] = NotCreating[p]]
    /\ UNCHANGED <<regVars, toolVars, users, nextUserId, registering, retained_pc, checkpoints,
                   external_sessions, nextCheckpointId, now, current_agent, pc,
                   trackPos, forkedFrom, steps, turn, retained>>

\* Two callers creating internal sessions
LineageNext ==
    \/ \E p \in Procs : CreateMarkAllNotCurrent(p)
    \/ \E p \in Procs : CreateInsert(p)

LineageSpec == Init /\ [][LineageNext]_vars



\* create_checkpoint(agent, name, checkpoint_type), also as called by
\* auto_checkpoint_hook: the new entry holds the session state without its
\* checkpoints; the oldest entry goes when the list is full. created is the
\* rank of the entry among the checkpoints made (the order of its timestamp).
create_checkpoint ==
    /\ tool_called.created < MaxCreated
    /\ \E h \in UuidHeads :
        LET n == tool_called.created + 1
            checkpoint ==
                [checkpoint_id |-> <<h, n>>,
                 message_count |-> agent_session_state.message_counter,
                 session_state |-> WithoutCheckpoints(agent_session_state),
                 created |-> n]
        IN  /\ agent_session_state' =
                  [agent_session_state EXCEPT !.checkpoints =
                      Append(Evicted(@, agent_session_state.max_checkpoints),
                             checkpoint)]
            /\ tool_called' = [op |-> "create_checkpoint", ok |-> TRUE,
                               checkpoint_id |-> <<h, n>>, index |-> 0,
                               created |-> n]
    /\ UNCHANGED <<regVars, serviceVars>>

\* delete_checkpoint(agent, checkpoint_id)
delete_checkpoint ==
    /\ \E checkpoint_id \in CheckpointIdArgs :
        LET idx == FirstMatch(agent_session_state.checkpoints, checkpoint_id)
        IN  /\ agent_session_state' =
                  IF idx = 0 THEN agent_session_state
                  ELSE [agent_session_state EXCEPT !.checkpoints = Popped(@, idx)]
            /\ tool_called' = [tool_called EXCEPT !.op = "delete_checkpoint",
                                                  !.ok = (idx # 0),
                                                  !.checkpoint_id = checkpoint_id,
                                                  !.index = idx]
    /\ UNCHANGED <<regVars, serviceVars>>

\* rollback_to_checkpoint(agent, checkpoint_id): the keys of the checkpoint's
\* session state are put back, the list is cut after the checkpoint, the
\* message counter becomes the checkpoint's and rollback_completed is set.
rollback_to_checkpoint ==
    /\ \E checkpoint_id \in CheckpointIdArgs :
        LET checkpoints_ == agent_session_state.checkpoints
            checkpoint_index == FirstMatch(checkpoints_, checkpoint_id)
        IN  /\ agent_session_state' =
                  IF checkpoint_index = 0 THEN agent_session_state
                  ELSE LET checkpoint == checkpoints_[checkpoint_index]
                       IN  [checkpoints |-> SubSeq(checkpoints_, 1, checkpoint_index),
                            message_counter |-> checkpoint.message_count,
                            max_checkpoints |-> checkpoint.session_state.max_checkpoints,
                            rollback_completed |-> TRUE]
            /\ tool_called' = [tool_called EXCEPT !.op = "rollback_to_checkpoint",
                                                  !.ok = (checkpoint_index # 0),
                                                  !.checkpoint_id = checkpoint_id,
                                                  !.index = checkpoint_index]
    /\ UNCHANGED <<regVars, serviceVars>>

\* ConversationManager.run_conversation_loop after a run:
\* agent.session_state["message_counter"] += 1
CountMessage ==
    /\ agent_session_state.message_counter < MaxMessageCounter
    /\ agent_session_state' =
          [agent_session_state EXCEPT !.message_counter = @ + 1]
    /\ tool_called' = [tool_called EXCEPT !.op = "message", !.ok = TRUE,
                                          !.checkpoint_id = <<>>, !.index = 0]
    /\ UNCHANGED <<regVars, serviceVars>>

CheckpointToolNext ==
    \/ create_checkpoint
    \/ delete_checkpoint
    \/ rollback_to_checkpoint
    \/ CountMessage

\* An agent of create_rollback_agent, with a max_checkpoints of 1 or more
CheckpointToolInit ==
    /\ RegInit
    /\ internal_sessions = <<>>
    /\ checkpoints = <<>>
    /\ external_sessions = [e \in ExtIds |-> ExternalSession(e)]
    /\ users = UsersBeforehand
    /\ nextUserId = 3
    /\ \E max_checkpoints \in 1..MaxKept :
          agent_session_state = CreateRollbackAgentState(max_checkpoints)
    /\ tool_called = NotCalled
    /\ registering = NotRegistering
    /\ creating = NotCreating
    /\ nextInternalId = 1
    /\ nextCheckpointId = 1
    /\ now = 1
    /\ current_agent = <<>>
    /\ pc = "idle"
    /\ trackPos = <<>>
    /\ forkedFrom = <<>>
    /\ last = Did("init", TRUE)
    /\ steps = 0
    /\ turn = [checkpoints |-> <<>>, internal_sessions |-> <<>>,
               injected |-> <<>>, fired |-> FALSE, requested |-> NoId]
    /\ retained = <<>>
    /\ retained_pc = "idle"

CheckpointToolSpec == CheckpointToolInit /\ [][CheckpointToolNext]_vars


RegistrySpec == Init /\ [][RegNext]_vars

----------------------------------------------------------------------------
(* Properties of the registry (RegistrySpec) *)

\* The Track as it was when the last registry call was made.
TrackBefore == SubSeq(track, 1, regLast.len_before)

\* The positions of trk that hold a record of a tool that is not a reserved
\* checkpoint tool, highest first.
RECURSIVE UndoablePositions(_, _)
UndoablePositions(trk, i) ==
    IF i = 0 THEN <<>>
    ELSE IF trk[i].tool_name \in CHECKPOINT_TOOL_NAMES
         THEN UndoablePositions(trk, i - 1)
         ELSE <<i>> \o UndoablePositions(trk, i - 1)

StrictlyDescending(seq) ==
    \A a, b \in 1..Len(seq) : a < b => seq[a] > seq[b]

StrictlyAscending(seq) ==
    \A a, b \in 1..Len(seq) : a < b => seq[a] < seq[b]

\* C6 (as the specification states it): after an undo of the whole Track
\* (rollback_from(0)) the Track has length 0.  The registry has no index
\* parameter and rollback() never truncates, so this is violated.
C6_TrackTruncatedAfterRollback ==
    regLast.op = "rollback" => Len(track) = 0

\* C7: an undo invokes the reverse handlers in strictly descending Track
\* position order, over exactly the records whose tool carries a reverse; a
\* redo invokes the forward handlers in strictly ascending position order,
\* over exactly the records of the Track snapshot whose tool is registered.
C7_UndoDescendingRedoAscending ==
    /\ regLast.op = "rollback" =>
          /\ StrictlyDescending(regLast.calls)
          /\ {regLast.calls[k] : k \in 1..Len(regLast.calls)}
                = ReverseInvoked(TrackBefore, tools)
    /\ regLast.op = "redo" =>
          /\ StrictlyAscending(regLast.calls)
          /\ {regLast.calls[k] : k \in 1..Len(regLast.calls)}
                = ForwardInvoked(TrackBefore, tools)

\* An undo has invoked at least two reverse handlers.
C7_Witness ==
    /\ regLast.op = "rollback"
    /\ Len(regLast.calls) >= 2

\* C8 (as the specification states it): during an undo the reverse handler is
\* never invoked for a record whose success is false.  rollback() does not
\* look at record.success, so this is violated.
C8_NoReverseForFailedRecord ==
    regLast.op = "rollback" =>
        \A k \in 1..Len(regLast.calls) : track[regLast.calls[k]].success

\* C9: an undo returns one outcome per record of a non-checkpoint tool, in
\* reverse Track order; a reverse handler that raises gives a failed outcome
\* with an error message and the walk goes on; no reverse handler is invoked
\* twice; records of checkpoint tools are skipped (no outcome, no call).
C9_UndoAttemptsEveryRecord ==
    regLast.op = "rollback" =>
        LET undoable == UndoablePositions(TrackBefore, Len(TrackBefore))
        IN  /\ Len(regLast.results) = Len(undoable)
            /\ \A k \in 1..Len(undoable) :
                  /\ regLast.results[k].tool_name = track[undoable[k]].tool_name
                  /\ undoable[k] \in regLast.throws =>
                        /\ ~regLast.results[k].reversed_successfully
                        /\ regLast.results[k].error_message # None
            /\ \A a, b \in 1..Len(regLast.calls) :
                  a # b => regLast.calls[a] # regLast.calls[b]
            /\ \A k \in 1..Len(regLast.calls) :
                  track[regLast.calls[k]].tool_name \notin CHECKPOINT_TOOL_NAMES
            /\ regLast.throws \subseteq
                  {regLast.calls[k] : k \in 1..Len(regLast.calls)}
            /\ ReverseInvoked(TrackBefore, tools) \subseteq
                  {regLast.calls[k] : k \in 1..Len(regLast.calls)}

\* An undo over a Track that holds a checkpoint-tool record, in which a
\* reverse handler raised and the handler of a lower position was still called.
C9_Witness ==
    /\ regLast.op = "rollback"
    /\ \E i \in regLast.throws :
          \E k \in 1..Len(regLast.calls) : regLast.calls[k] < i
    /\ \E i \in 1..Len(track) : track[i].tool_name \in CHECKPOINT_TOOL_NAMES

----------------------------------------------------------------------------
(* Properties of the service (Spec) *)

\* The last call was a rollback_to_checkpoint that returned a new agent.
RolledBack ==
    /\ last.op = "rollback_to_checkpoint"
    /\ last.ok

SessionsOf(tbl, ext) ==
    {i \in DOMAIN tbl : tbl[i].external_session_id = ext}

C2_ForkCopiesCheckpointsUpToTarget ==
    RolledBack =>
        LET target == checkpoints[last.cp]
            source == {k \in DOMAIN checkpoints :
                        /\ checkpoints[k].internal_session_id
                              = target.internal_session_id
                        /\ checkpoints[k].created_at <= target.created_at}
            copies == {k \in DOMAIN checkpoints :
                        checkpoints[k].internal_session_id = last.new}
        IN  /\ \E f \in [source -> copies] :
                  /\ \A c \in copies : \E k \in source : f[k] = c
                  /\ \A k, j \in source : f[k] = f[j] => k = j
                  /\ \A k \in source :
                        checkpoints[f[k]] =
                            [checkpoints[k] EXCEPT !.internal_session_id = last.new]
            /\ internal_sessions[last.new].session_state = target.session_state
            /\ internal_sessions[last.new].conversation_history
                  = target.conversation_history

\* A rollback whose source session held a checkpoint newer than the target
\* (left out) and one older than it (copied besides the target).
C2_Witness ==
    /\ RolledBack
    /\ \E k, j \in DOMAIN checkpoints :
          /\ checkpoints[k].internal_session_id
                = checkpoints[last.cp].internal_session_id
          /\ checkpoints[j].internal_session_id
                = checkpoints[last.cp].internal_session_id
          /\ checkpoints[k].created_at > checkpoints[last.cp].created_at
          /\ j # last.cp
          /\ checkpoints[j].created_at <= checkpoints[last.cp].created_at
    /\ checkpoints[last.cp].conversation_history # <<>>

\* C3: a rollback to a stored checkpoint inserts exactly one internal
\* session, which becomes the only current one of its external session;
\* every internal session that existed keeps its state, history and counter
\* (only is_current is cleared, never set), and every checkpoint that existed
\* is left as it was.
C3_RollbackForksAndLeavesSource ==
    [][ (steps' = steps + 1 /\ last'.op = "rollback_to_checkpoint" /\ last'.ok) =>
          /\ nextInternalId \notin DOMAIN internal_sessions
          /\ DOMAIN internal_sessions'
                = DOMAIN internal_sessions \cup {nextInternalId}
          /\ last'.new = nextInternalId
          /\ internal_sessions'[nextInternalId].is_current
          /\ CurrentSessions(internal_sessions', last'.ext) = {nextInternalId}
          /\ \A i \in DOMAIN internal_sessions :
                /\ internal_sessions'[i] =
                      [internal_sessions[i] EXCEPT
                          !.is_current = internal_sessions'[i].is_current]
                /\ internal_sessions'[i].is_current => internal_sessions[i].is_current
          /\ \A k \in DOMAIN checkpoints :
                /\ k \in DOMAIN checkpoints'
                /\ checkpoints'[k] = checkpoints[k]
      ]_vars

\* A rollback has been made whose source session has a history and
\* checkpoints, was the current one of the external session rolled back in,
\* and is not current any more.
C3_Witness ==
    /\ RolledBack
    /\ LET src == checkpoints[last.cp].internal_session_id
       IN  /\ internal_sessions[src].external_session_id = last.ext
           /\ ~internal_sessions[src].is_current
           /\ internal_sessions[src].conversation_history # <<>>
           /\ forkedFrom[last.new] = src

\* C4 (as the specification states it): right after a rollback, every manual
\* checkpoint of the external session created no later than the rollback
\* target is listed in the new current internal session, and
\* rollback_to_checkpoint_tool given its name finds a checkpoint.
C4_EveryEarlierManualCheckpointKept ==
    RolledBack =>
        \A m \in DOMAIN checkpoints :
            ( /\ ~checkpoints[m].is_auto
              /\ internal_sessions[checkpoints[m].internal_session_id]
                    .external_session_id = last.ext
              /\ checkpoints[m].created_at <= checkpoints[last.cp].created_at )
            => /\ \E c \in CheckpointsOf(checkpoints, last.new) :
                     /\ checkpoints[c].checkpoint_name = checkpoints[m].checkpoint_name
                     /\ ~checkpoints[c].is_auto
               /\ ResolveCheckpoint(checkpoints, last.new,
                     [id |-> NoId, name |-> checkpoints[m].checkpoint_name]) # {}

\* C4 (amended): right after a rollback, every manual checkpoint of the
\* target's own internal session created no later than the target has a copy
\* listed in the new current internal session, and, when int() does not
\* accept its name, rollback_to_checkpoint_tool given that name finds a
\* checkpoint of the new session carrying the name.
C4_SourceManualCheckpointsKept ==
    RolledBack =>
        \A m \in DOMAIN checkpoints :
            ( /\ ~checkpoints[m].is_auto
              /\ checkpoints[m].internal_session_id
                    = checkpoints[last.cp].internal_session_id
              /\ checkpoints[m].created_at <= checkpoints[last.cp].created_at )
            => /\ \E c \in DOMAIN checkpoints :
                     /\ checkpoints[c].internal_session_id = last.new
                     /\ checkpoints[c] =
                           [checkpoints[m] EXCEPT !.internal_session_id = last.new]
               /\ ParseInt(checkpoints[m].checkpoint_name) = NoId =>
                     LET hits == ResolveCheckpoint(checkpoints, last.new,
                                    [id |-> NoId,
                                     name |-> checkpoints[m].checkpoint_name])
                     IN  /\ hits # {}
                         /\ \A k \in hits :
                               /\ checkpoints[k].internal_session_id = last.new
                               /\ checkpoints[k].checkpoint_name
                                     = checkpoints[m].checkpoint_name

\* A rollback to a manual checkpoint whose session held an earlier manual
\* checkpoint with a name int() does not accept.
C4_Witness ==
    /\ RolledBack
    /\ ~checkpoints[last.cp].is_auto
    /\ \E m \in DOMAIN checkpoints :
          /\ m # last.cp
          /\ ~checkpoints[m].is_auto
          /\ checkpoints[m].internal_session_id
                = checkpoints[last.cp].internal_session_id
          /\ checkpoints[m].created_at < checkpoints[last.cp].created_at
          /\ ParseInt(checkpoints[m].checkpoint_name) = NoId

\* The positions of the agent's Track a rollback to checkpoint cp has to
\* reverse, newest first: those above the Track position the checkpoint was
\* taken at that hold a successful call of a tool that is not a checkpoint tool.
RECURSIVE PositionsToReverse(_, _, _)
PositionsToReverse(trk, position, i) ==
    IF i <= position THEN <<>>
    ELSE IF trk[i].tool_name \in CHECKPOINT_TOOL_NAMES \/ ~trk[i].success
         THEN PositionsToReverse(trk, position, i - 1)
         ELSE <<i>> \o PositionsToReverse(trk, position, i - 1)

\* C5 (as the specification states it): a rollback with rollback_tools = true
\* made while the service has a live agent invokes the reverse handlers of the
\* Track positions at or after the Track position of the checkpoint, and of
\* no lower position.  No checkpoint carries tool_track_position, so no
\* reverse handler is ever invoked and this is violated.
C5_ReverseHandlersInvokedFromPosition ==
    (RolledBack /\ last.rollback_tools /\ last.had_agent) =>
        last.reversed = PositionsToReverse(last.track_before, trackPos[last.cp],
                                           Len(last.track_before))

\* C10 (as the specification states it): when reverse handlers fail during a
\* rollback the fork is still made and the failed outcomes are reported.  The
\* fork is made, but no reverse handler is attempted, so nothing is reported
\* and this is violated.
C10_FailedOutcomesReportedAndForked ==
    (RolledBack /\ last.rollback_tools /\ last.had_agent) =>
        /\ CurrentSessions(internal_sessions, last.ext) = {last.new}
        /\ \A i \in last.throws :
              (\E k \in 1..Len(PositionsToReverse(last.track_before,
                                  trackPos[last.cp], Len(last.track_before))) :
                  PositionsToReverse(last.track_before, trackPos[last.cp],
                                     Len(last.track_before))[k] = i)
              => \E k \in 1..Len(last.outcomes) :
                    ~last.outcomes[k].reversed_successfully

----------------------------------------------------------------------------
(* Further properties of the registry (RegistrySpec) *)

\* C11: every registered tool whose name is not a reserved checkpoint-tool
\* name has a reverse handler, whatever register calls were made (through
\* register_tool or the adapter's register_tools, re-registration included);
\* and a register call for a non-reserved name without a reverse handler
\* raises and leaves the registry as it was.
C11_RegisteredToolsHaveReverse ==
    /\ [](\A n \in RegToolNames :
            (tools[n] # NoSpec /\ n \notin CHECKPOINT_TOOL_NAMES)
                => tools[n] = SpecWithReverse)
    /\ [][ (regLast'.op \in {"register_tool", "register_tools"}
            /\ regLast'.name \notin CHECKPOINT_TOOL_NAMES
            /\ ~regLast'.has_reverse)
           => (regLast'.raised /\ tools' = tools) ]_vars

\* A tool registered with a reverse handler has been registered again without
\* one: the call raised and the tool still has its reverse handler.
C11_Witness ==
    /\ regLast.op = "register_tool"
    /\ regLast.raised
    /\ ~regLast.has_reverse
    /\ tools[regLast.name] = SpecWithReverse

----------------------------------------------------------------------------
(* Further properties of the service (Spec) *)

\* C12 (as the specification states it): every stored checkpoint carries in
\* its metadata a tool_track_position, an integer no greater than the length
\* the agent's Track had when the checkpoint was made.
\* Checkpoint.from_internal_session writes no such key, so this is violated
\* by the first checkpoint.
C12_CheckpointCarriesTrackPosition ==
    \A k \in DOMAIN checkpoints :
        /\ checkpoints[k].metadata.tool_track_position # Absent
        /\ checkpoints[k].metadata.tool_track_position \in 0..trackPos[k]

\* C13: a stored checkpoint is never mutated. Over every step (turn, snapshot,
\* deletion, pruning, rollback) a row present before and after is the same
\* row, with the same name, auto flag, session state, conversation history,
\* created_at and metadata, and a row that appears is a new one (ids are not
\* used again, so a deleted row never returns under its id).
C13_StoredCheckpointNeverMutated ==
    [][ /\ \A k \in DOMAIN checkpoints \cap DOMAIN checkpoints' :
              checkpoints'[k] = checkpoints[k]
        /\ \A k \in DOMAIN checkpoints' \ DOMAIN checkpoints :
              k >= nextCheckpointId ]_vars

\* A pruning has just deleted a checkpoint of a session, and an earlier
\* snapshot of that session, taken before later turns, is still stored with
\* the shorter history it was taken with.
C13_Witness ==
    /\ last.op = "cleanup_auto_checkpoints_tool"
    /\ last.deleted # {}
    /\ \E k \in DOMAIN checkpoints :
          /\ checkpoints[k].internal_session_id = Agent.internal_session.id
          /\ Len(checkpoints[k].conversation_history)
                < Len(Agent.internal_session.conversation_history)

\* The checkpoint management tools RollbackAgent.__init__ gives the agent
CheckpointToolsOfAgent ==
    {"create_checkpoint_tool", "list_checkpoints_tool",
     "rollback_to_checkpoint_tool", "delete_checkpoint_tool",
     "get_checkpoint_info_tool", "cleanup_auto_checkpoints_tool"}

\* The automatic checkpoints held by a checkpoint table
AutoCheckpoints(tbl) == {k \in DOMAIN tbl : tbl[k].is_auto}

\* The automatic checkpoints stored since the run began
NewAutoCheckpoints == AutoCheckpoints(checkpoints) \ DOMAIN turn.checkpoints

\* A tool was invoked in the run and the last one is not a checkpoint tool
LastToolIsCallerTool ==
    /\ Agent.tool_was_called
    /\ Agent.last_tool_called \notin CheckpointToolsOfAgent

\* C14 (as the specification states it): a completed run creates exactly one
\* automatic checkpoint, named "After <last tool>", if a tool was invoked and
\* the last invoked tool is not a checkpoint tool; otherwise the number of
\* automatic checkpoints is the same after the run as before it.
\* Violated by a run whose last tool is delete_checkpoint_tool or
\* cleanup_auto_checkpoints_tool and which deleted an automatic checkpoint.
C14_AutoCheckpointCountChangesOnlyByOne ==
    (last.op = "run_end" /\ last.ok) =>
        IF LastToolIsCallerTool
        THEN \E k \in DOMAIN checkpoints :
                /\ NewAutoCheckpoints = {k}
                /\ checkpoints[k].checkpoint_name = "After " \o Agent.last_tool_called
        ELSE Cardinality(AutoCheckpoints(checkpoints))
                = Cardinality(AutoCheckpoints(turn.checkpoints))

\* C14 (amended): a completed run creates exactly one automatic checkpoint,
\* named "After <last tool>", if a tool was invoked and the last invoked tool
\* is not a checkpoint tool; otherwise it creates no automatic checkpoint.
C14_RunCreatesAutoCheckpointIffLastToolIsCallerTool ==
    (last.op = "run_end" /\ last.ok) =>
        IF LastToolIsCallerTool
        THEN \E k \in DOMAIN checkpoints :
                /\ NewAutoCheckpoints = {k}
                /\ checkpoints[k].checkpoint_name = "After " \o Agent.last_tool_called
        ELSE NewAutoCheckpoints = {}

\* A run has just ended whose last tool was a caller tool, after a manual
\* snapshot in the same run: one automatic checkpoint was added.
C14_Witness ==
    /\ last.op = "run_end"
    /\ last.ok
    /\ LastToolIsCallerTool
    /\ Cardinality(NewAutoCheckpoints) = 1
    /\ DOMAIN checkpoints \ (DOMAIN turn.checkpoints \cup NewAutoCheckpoints) # {}

\* C15 (as the specification states it): after a turn in which a
\* non-checkpoint tool fired, at whatever position among the turn's tool
\* calls, an automatic checkpoint has been created.
\* run looks only at the last tool called: a caller tool followed by a
\* checkpoint tool leaves no automatic checkpoint.
C15_AnyCallerToolGivesAutoCheckpoint ==
    (last.op = "run_end" /\ last.ok /\ turn.fired) => NewAutoCheckpoints # {}

\* C16 (as the specification states it): when the creation of the automatic
\* checkpoint fails, the run does not fail: it returns the response, and the
\* session as the turn left it (state and history, the answer included) is
\* what the store holds.
\* _create_auto_checkpoint catches nothing: the failure ends the run by
\* raising, before the session is saved.
C16_AutoCheckpointFailureDoesNotFailRun ==
    (last.op = "run_end" /\ last.create_raised) =>
        /\ last.ok
        /\ LET row == internal_sessions[Agent.internal_session.id]
           IN  /\ row.session_state = Agent.internal_session.session_state
               /\ row.conversation_history
                     = Agent.internal_session.conversation_history

\* C17: rollback_to_checkpoint_tool creates or deletes no internal session and
\* no checkpoint and moves no current pointer (the three tables, and the
\* agent's internal session, are as before).  When the target is found, the
\* agent's session state differs from the one before only in
\* rollback_requested, now true, and rollback_checkpoint_id, now the id of
\* the target, a stored checkpoint; when it is not found the session state is
\* unchanged.
C17_RollbackToolOnlySetsRequest ==
    [][ (steps' = steps + 1 /\ last'.op = "rollback_to_checkpoint_tool") =>
          /\ internal_sessions' = internal_sessions
          /\ checkpoints' = checkpoints
          /\ external_sessions' = external_sessions
          /\ Agent'.internal_session = Agent.internal_session
          /\ IF last'.ok
             THEN /\ last'.cp \in DOMAIN checkpoints
                  /\ Agent'.session_state =
                        [Agent.session_state EXCEPT
                            !.rollback_requested = "True",
                            !.rollback_checkpoint_id = last'.cp]
             ELSE Agent'.session_state = Agent.session_state ]_vars

\* The tool has found its target, in a store that holds checkpoints and an
\* agent whose session state did not ask for a rollback of that target before.
C17_Witness ==
    /\ last.op = "rollback_to_checkpoint_tool"
    /\ last.ok
    /\ Agent.session_state.rollback_requested = "True"
    /\ Agent.session_state.rollback_checkpoint_id = last.cp
    /\ Agent.internal_session.session_state.rollback_requested = Absent
    /\ Cardinality(DOMAIN checkpoints) >= 2

\* C18 (as the specification states it): a run, on any agent, leaves the
\* lineage as it found it: for every external session, the set of its
\* internal sessions and the set of its current internal sessions are, when
\* the run returns, those of the store when the run began.
\* Violated under HandleSpec: run saves the agent's own copy of is_current, so
\* a run on an agent of a session that is no longer current makes it current.
C18_RunLeavesLineage ==
    (last.op \in {"run_end", "run_retained"}) =>
        \A ext \in ExtIds :
            /\ SessionsOf(internal_sessions, ext)
                  = SessionsOf(turn.internal_sessions, ext)
            /\ CurrentSessions(internal_sessions, ext)
                  = CurrentSessions(turn.internal_sessions, ext)

\* C20: a rollback to a checkpoint id the store does not hold fails, and a
\* failed rollback returns no agent and changes nothing: no internal session
\* and no checkpoint is created, every internal session keeps its is_current
\* flag, the external sessions keep their current pointer, and the service
\* keeps its current agent.
C20_RollbackToMissingCheckpointChangesNothing ==
    [][ (steps' = steps + 1 /\ last'.op = "rollback_to_checkpoint") =>
          /\ last'.cp \notin DOMAIN checkpoints => ~last'.ok
          /\ ~last'.ok =>
               /\ last'.new = NoId
               /\ internal_sessions' = internal_sessions
               /\ checkpoints' = checkpoints
               /\ external_sessions' = external_sessions
               /\ nextInternalId' = nextInternalId
               /\ current_agent' = current_agent ]_vars

\* A rollback to a missing checkpoint has just failed on a service that has
\* a current agent, sessions of which one is current, and checkpoints.
C20_Witness ==
    /\ last.op = "rollback_to_checkpoint"
    /\ ~last.ok
    /\ last.cp \notin DOMAIN checkpoints
    /\ HasAgent
    /\ CurrentSessions(internal_sessions, last.ext) # {}
    /\ checkpoints # <<>>


\* C21 (as the specification states it): resume_agent given an internal
\* session id that the store does not hold, or that belongs to another
\* external session, fails: no agent is returned, no internal session is
\* created, and no current pointer moves.
\* resume_agent falls back to create_new_agent for an unknown id, and resumes
\* a session of another external session without looking at its owner.
C21_ResumeOfUnknownSessionFails ==
    [][ (/\ steps' = steps + 1
         /\ last'.op = "resume_agent"
         /\ last'.sid # NoId
         /\ \/ last'.sid \notin DOMAIN internal_sessions
            \/ internal_sessions[last'.sid].external_session_id # last'.ext)
        => /\ ~last'.ok
           /\ internal_sessions' = internal_sessions
           /\ external_sessions' = external_sessions
           /\ current_agent' = current_agent ]_vars

\* C22 (as the specification states it): after resume_agent has returned an
\* agent, the internal session of that agent is the current one of its
\* external session: its row has is_current = true and no sibling has.
\* resume_agent never calls set_current_session: an internal session resumed
\* by id stays as it was, current or not.
C22_ResumedSessionIsCurrent ==
    (last.op = "resume_agent" /\ last.ok) =>
        CurrentSessions(internal_sessions,
                        Agent.internal_session.external_session_id)
            = {Agent.internal_session.id}

\* The tool has just looked a checkpoint up by name (its argument is not
\* one int() accepts)
LookedUpByName ==
    /\ steps' = steps + 1
    /\ last'.op = "rollback_to_checkpoint_tool"
    /\ last'.name # None
    /\ ParseInt(last'.name) = NoId

\* part occurs in whole, for lower-case names of the model
IsSubstring(part, whole) ==
    \/ part = whole
    \/ part = "a" /\ whole = "after create_file"

\* C25 (as the specification states it): a name given to
\* rollback_to_checkpoint_tool selects a manual checkpoint of the agent's
\* internal session whose name contains it, letter case aside, if there is
\* one, and nothing otherwise: never an automatic checkpoint, never a
\* checkpoint of another internal session.
\* The tool compares the whole names for equality and goes through all the
\* checkpoints of the session: "after create_file" selects an automatic one.
C25_NameSelectsManualCheckpointBySubstring ==
    [][ LookedUpByName =>
          LET sid == Agent.internal_session.id
              matches == {k \in CheckpointsOf(checkpoints, sid) :
                            /\ ~checkpoints[k].is_auto
                            /\ IsSubstring(Lower(last'.name),
                                           Lower(checkpoints[k].checkpoint_name))}
          IN  IF matches = {} THEN ~last'.ok
              ELSE last'.ok /\ last'.cp \in matches ]_vars

\* C26: when the name given to rollback_to_checkpoint_tool is the name, letter
\* case aside, of several checkpoints of the agent's internal session, the
\* one selected has the latest created_at of them.
C26_NewestMatchSelected ==
    [][ (LookedUpByName /\ last'.ok) =>
          LET sid == Agent.internal_session.id
              matches == {k \in CheckpointsOf(checkpoints, sid) :
                            Lower(checkpoints[k].checkpoint_name) = Lower(last'.name)}
          IN  /\ last'.cp \in matches
              /\ \A k \in matches :
                    checkpoints[last'.cp].created_at >= checkpoints[k].created_at ]_vars

\* The tool has just selected by name the later of two checkpoints of the
\* session that have this name and were made at different times.
C26_Witness ==
    /\ last.op = "rollback_to_checkpoint_tool"
    /\ last.ok
    /\ last.name = "a"
    /\ \E k \in CheckpointsOf(checkpoints, Agent.internal_session.id) :
          /\ k # last.cp
          /\ checkpoints[k].checkpoint_name = checkpoints[last.cp].checkpoint_name
          /\ checkpoints[k].created_at < checkpoints[last.cp].created_at

----------------------------------------------------------------------------
(* Restoration (RestoreSpec) *)

\* The service has just built an agent from checkpoint last.cp
JustRestored == last.op = "rollback_to_checkpoint" /\ last.ok

----------------------------------------------------------------------------
(* Deleting and pruning checkpoints (PruneSpec) *)

\* The smaller of two numbers
Least(a, b) == IF a < b THEN a ELSE b

\* C23: cleanup_auto_checkpoints_tool(keep_latest = N), called on the agent of
\* internal session sid, deletes rows and changes none; it keeps every
\* checkpoint of the other internal sessions and every manual checkpoint of
\* sid; of the automatic checkpoints of sid it keeps N, or all of them when
\* there are fewer than N, and none of those it deletes was created later
\* than one it keeps.
C23_CleanupKeepsManualAndNewestAutos ==
    [][ (steps' = steps + 1 /\ last'.op = "cleanup_auto_checkpoints_tool") =>
          LET sid == Agent.internal_session.id
              autos == {k \in CheckpointsOf(checkpoints, sid) : checkpoints[k].is_auto}
              kept == autos \cap DOMAIN checkpoints'
          IN  /\ DOMAIN checkpoints' \subseteq DOMAIN checkpoints
              /\ \A k \in DOMAIN checkpoints' : checkpoints'[k] = checkpoints[k]
              /\ DOMAIN checkpoints \ autos \subseteq DOMAIN checkpoints'
              /\ Cardinality(kept) = Least(last'.keep_latest, Cardinality(autos))
              /\ \A k \in kept, d \in autos \ kept :
                    checkpoints[k].created_at >= checkpoints[d].created_at ]_vars

\* A pruning that kept one automatic checkpoint has just deleted an older one
\* of the same session, and the store holds a manual checkpoint of that
\* session and a checkpoint of another session.
C23_Witness ==
    /\ last.op = "cleanup_auto_checkpoints_tool"
    /\ last.keep_latest = 1
    /\ last.deleted # {}
    /\ \E k \in CheckpointsOf(checkpoints, Agent.internal_session.id) :
          checkpoints[k].is_auto
    /\ \E k \in CheckpointsOf(checkpoints, Agent.internal_session.id) :
          ~checkpoints[k].is_auto
    /\ \E k \in DOMAIN checkpoints :
          checkpoints[k].internal_session_id # Agent.internal_session.id

\* C24: delete_checkpoint_tool(id) removes the checkpoint id, and no other,
\* if the store holds it and it belongs to the internal session of the agent;
\* in every other case the stored checkpoints are unchanged.
C24_DeleteOnlyOwnCheckpoint ==
    [][ (steps' = steps + 1 /\ last'.op = "delete_checkpoint_tool") =>
          IF /\ last'.cp \in DOMAIN checkpoints
             /\ checkpoints[last'.cp].internal_session_id = Agent.internal_session.id
          THEN /\ DOMAIN checkpoints' = DOMAIN checkpoints \ {last'.cp}
               /\ \A k \in DOMAIN checkpoints' : checkpoints'[k] = checkpoints[k]
               /\ last'.ok
          ELSE /\ checkpoints' = checkpoints
               /\ ~last'.ok ]_vars

\* The agent of a forked session has just deleted a checkpoint of its own;
\* the checkpoints of the session it was forked from are those stored when
\* the run began.
C24_Witness ==
    /\ last.op = "delete_checkpoint_tool"
    /\ last.ok
    /\ last.cp \notin DOMAIN checkpoints
    /\ forkedFrom[Agent.internal_session.id] # NoId
    /\ CheckpointsOf(checkpoints, forkedFrom[Agent.internal_session.id])
          = CheckpointsOf(turn.checkpoints, forkedFrom[Agent.internal_session.id])
    /\ CheckpointsOf(checkpoints, forkedFrom[Agent.internal_session.id]) # {}

----------------------------------------------------------------------------
(* Deleting users and external sessions (DeleteSpec) *)

\* The external sessions of user u, the internal sessions of the external
\* sessions exts, the checkpoints of the internal sessions sids
ExternalSessionsOfUser(u) ==
    {e \in DOMAIN external_sessions : external_sessions[e].user_id = u}

InternalSessionsOf(exts) ==
    {i \in DOMAIN internal_sessions :
        internal_sessions[i].external_session_id \in exts}

CheckpointsOfSessions(sids) ==
    {k \in DOMAIN checkpoints : checkpoints[k].internal_session_id \in sids}

\* After the deletion nothing is stored of the external sessions exts.
NothingLeftOf(exts) ==
    /\ DOMAIN external_sessions' \cap exts = {}
    /\ DOMAIN internal_sessions' \cap InternalSessionsOf(exts) = {}
    /\ DOMAIN checkpoints' \cap CheckpointsOfSessions(InternalSessionsOf(exts)) = {}

\* C27 (as the specification states it): the deletion of a user leaves in the
\* store no external session of the user, no internal session of these and
\* no checkpoint of those; the deletion of an external session leaves no
\* internal session of it and no checkpoint of those.
\* Only the row named is deleted when the SQLite library does not enforce
\* foreign keys, and no connection asks it to.
C27_DeletionLeavesNothingOwned ==
    [][ /\ (steps' = steps + 1 /\ last'.op = "delete_user")
            => NothingLeftOf(ExternalSessionsOfUser(last'.user))
        /\ (steps' = steps + 1 /\ last'.op = "delete_external_session")
            => NothingLeftOf({last'.ext}) ]_vars

----------------------------------------------------------------------------
(* Two runs on one internal session (ConcurrentSpec) *)

\* C28 (as the specification states it): no two calls of run are under way
\* at once on agents of the same internal session.
\* run takes no lock and keeps no mark of a run under way: the second call
\* goes ahead, and the save that comes last overwrites the other's.
C28_OneRunInFlightPerSession ==
    ~ /\ pc = "running"
      /\ retained_pc = "running"
      /\ Agent.internal_session.id = retained[1].internal_session.id

----------------------------------------------------------------------------
(* Redo (RegistrySpec) *)

\* C29: redo ends, having invoked in ascending position order the forward
\* handler of each record that was in the Track when it began and whose tool
\* is registered, checkpoint tools included, and of no record it appended;
\* it appends one record per invocation, with the tool and the arguments of
\* the record invoked, failed and without result when the handler raised;
\* the records that were in the Track are still there, unchanged.
C29_RedoAppendsOnly ==
    [][ regLast'.op = "redo" =>
          LET calls == regLast'.calls
              n == Len(track)
          IN  /\ StrictlyAscending(calls)
              /\ {calls[k] : k \in 1..Len(calls)}
                    = {i \in 1..n : tools[track[i].tool_name] # NoSpec}
              /\ Len(track') = n + Len(calls)
              /\ SubSeq(track', 1, n) = track
              /\ regLast'.results = SubSeq(track', n + 1, Len(track'))
              /\ \A k \in 1..Len(calls) :
                    LET new == track'[n + k]
                        old == track[calls[k]]
                    IN  /\ new.tool_name = old.tool_name
                        /\ new.args = old.args
                        /\ new.success = (calls[k] \notin regLast'.throws)
                        /\ ~new.success => new.result = None ]_vars

\* A redo has invoked two handlers, that of a checkpoint tool among them, and
\* one of them raised.
C29_Witness ==
    /\ regLast.op = "redo"
    /\ Len(regLast.calls) >= 2
    /\ regLast.throws # {}
    /\ \E k \in 1..Len(regLast.calls) :
          track[regLast.calls[k]].tool_name \in CHECKPOINT_TOOL_NAMES

----------------------------------------------------------------------------
(* The checkpoint counter (ConcurrentSpec) *)

\* The checkpoints stored for internal session sid
SnapshotsOf(tbl, sid) ==
    {k \in DOMAIN tbl : tbl[k].internal_session_id = sid}

\* C30 (as the specification states it): the checkpoint_count stored for an
\* internal session never decreases, and a step that stores a new checkpoint
\* of the session increases it by exactly one.
\* An agent saves the whole row from the InternalSession object it holds: a
\* second agent of the session, which has not seen the snapshots of the
\* first, writes its own lower count over the stored one.
C30_CheckpointCountNeverDecreases ==
    [][ \A sid \in DOMAIN internal_sessions \cap DOMAIN internal_sessions' :
          LET before == internal_sessions[sid].checkpoint_count
              after == internal_sessions'[sid].checkpoint_count
              made == SnapshotsOf(checkpoints', sid) \ DOMAIN checkpoints
          IN  /\ after >= before
              /\ made # {} => after = before + 1 ]_vars

----------------------------------------------------------------------------
(* The children of an external session (ExternalSpec) *)

\* The agno session ids an external session lists
ListedIn(row) ==
    {row.internal_session_ids[k] : k \in 1..Len(row.internal_session_ids)}

\* C31: the current_internal_session_id of every external session is null or
\* one of its internal_session_ids.
C31_CurrentIsNoneOrListed ==
    \A e \in DOMAIN external_sessions :
        \/ external_sessions[e].current_internal_session_id = NoId
        \/ external_sessions[e].current_internal_session_id
              \in ListedIn(external_sessions[e])

\* set_current_internal_session has just been refused an id the external
\* session does not list, the session listing others and its current one
\* being an earlier one of them.
C31_Witness ==
    /\ last.op = "set_current_internal_session"
    /\ ~last.ok
    /\ last.ext \in DOMAIN external_sessions
    /\ LET row == external_sessions[last.ext]
       IN  /\ Len(row.internal_session_ids) >= 2
           /\ row.current_internal_session_id = row.internal_session_ids[1]

----------------------------------------------------------------------------
(* The conversation history of an internal session (ConcurrentSpec) *)

\* Sequence a is the beginning of sequence b.
BeginsWith(b, a) == Len(a) <= Len(b) /\ SubSeq(b, 1, Len(a)) = a

\* C32 (as the specification states it): the conversation history stored for
\* an internal session only grows at its end, and a run that has completed
\* has added to the history stored when it began one user entry followed by
\* one assistant entry, nothing else.
\* An agent saves the history of the InternalSession object it holds over the
\* stored one: a second agent of the session replaces what the first stored.
\* (A run whose automatic checkpoint could not be stored leaves its two
\* entries to be saved by the next run, which then adds four.)
C32_HistoryAppendOnly ==
    [][ \A sid \in DOMAIN internal_sessions \cap DOMAIN internal_sessions' :
          LET after == internal_sessions'[sid].conversation_history
          IN  /\ BeginsWith(after, internal_sessions[sid].conversation_history)
              /\ ( /\ steps' = steps + 1
                   /\ last'.op = "run_end"
                   /\ last'.ok
                   /\ sid = Agent.internal_session.id
                   /\ sid \in DOMAIN turn.internal_sessions )
                 => LET began == turn.internal_sessions[sid].conversation_history
                    IN  /\ Len(after) = Len(began) + 2
                        /\ BeginsWith(after, began)
                        /\ after[Len(began) + 1].role = "user"
                        /\ after[Len(began) + 2].role = "assistant" ]_vars

----------------------------------------------------------------------------
(* Accounts (AuthSpec) *)

\* The usernames stored
UsernamesOf(tbl) == {tbl[u].username : u \in DOMAIN tbl}

\* C33: delete_user removes the target, and nothing else, when the requester
\* is an admin and the target is a user other than rootusr and other than the
\* requester; otherwise it leaves the users as they were.  The accounts
\* always hold a user rootusr, and rootusr is an admin.
C33_OnlyAdminDeletesAndRootStays ==
    /\ [](\E u \in DOMAIN users : users[u].username = "rootusr" /\ users[u].is_admin)
    /\ [][ last'.op = "auth_delete_user" =>
             LET target == {u \in DOMAIN users : users[u].username = last'.name}
                 allowed == /\ last'.user \in DOMAIN users
                            /\ users[last'.user].is_admin
                            /\ target # {}
                            /\ last'.name # "rootusr"
                            /\ last'.user \notin target
             IN  /\ last'.ok = allowed
                 /\ IF allowed
                    THEN /\ DOMAIN users' = DOMAIN users \ target
                         /\ \A u \in DOMAIN users' : users'[u] = users[u]
                    ELSE users' = users ]_vars

\* rootusr has just deleted the one other user: the accounts hold rootusr
\* alone again.
C33_Witness ==
    /\ last.op = "auth_delete_user"
    /\ last.ok
    /\ UsernamesOf(users) = {"rootusr"}
    /\ nextUserId > 2

\* C34: no two users have the same username; a register call ends well
\* exactly when its data are valid and no user has the username at the time
\* it ends, and then stores one user of that name; a call that fails stores
\* nothing.  (Of two calls for one free username, the one that inserts first
\* ends well and the other fails.)
C34_UsernamesUnique ==
    /\ [](\A u, v \in DOMAIN users : users[u].username = users[v].username => u = v)
    /\ [][ last'.op = "register" =>
             IF last'.ok
             THEN /\ last'.name \notin UsernamesOf(users)
                  /\ \E u \in DOMAIN users' \ DOMAIN users :
                        /\ DOMAIN users' = DOMAIN users \cup {u}
                        /\ users'[u].username = last'.name
                  /\ \A u \in DOMAIN users : users'[u] = users[u]
             ELSE users' = users ]_vars

\* A register call has just failed on the INSERT: another call stored the
\* username after this one had found it free.
C34_Witness ==
    /\ last.op = "register"
    /\ ~last.ok
    /\ last.integrity_error
    /\ last.name \in UsernamesOf(users)

----------------------------------------------------------------------------
(* Two creations of internal sessions at once (LineageSpec) *)

\* C35 (as the specification states it): at every moment an external session
\* has at most one current internal session, and has one when it has internal
\* sessions.
\* create marks the rows not current in one transaction and inserts the new
\* row in another: between the two the external session has no current
\* session, and two creations that both mark before either inserts leave two.
C35_CreationIsAtomic ==
    \A ext \in ExtIds :
        LET sessions == {i \in DOMAIN internal_sessions :
                            internal_sessions[i].external_session_id = ext}
        IN  /\ Cardinality(CurrentSessions(internal_sessions, ext)) <= 1
            /\ sessions # {} => CurrentSessions(internal_sessions, ext) # {}

----------------------------------------------------------------------------
(* The two records of the current internal session (HandleSpec) *)

\* C36 (as the specification states it): between the calls, the
\* current_internal_session_id of an external session, when it has one, is
\* the agno_session_id of an internal session of that external session whose
\* is_current is true.
\* An agent saves its InternalSession object with the is_current it was
\* created with: an agent made before the external session got a newer
\* internal session marks its own session current again on its next run,
\* while the external session goes on naming the newer one.
C36_CurrentRecordsAgree ==
    pc = "idle" =>
        \A e \in DOMAIN external_sessions :
            LET cur == external_sessions[e].current_internal_session_id
            IN  cur # NoId =>
                  \E i \in DOMAIN internal_sessions :
                      /\ internal_sessions[i].agno_session_id = cur
                      /\ internal_sessions[i].external_session_id = e
                      /\ internal_sessions[i].is_current

----------------------------------------------------------------------------
(* Whose checkpoint a rollback takes (Spec) *)

\* The external session that checkpoint k belongs to
ExternalSessionOfCheckpoint(k) ==
    internal_sessions[checkpoints[k].internal_session_id].external_session_id

\* C37 (as stated): a rollback that makes a new internal session for an
\* external session takes a checkpoint of that external session, and
\* rollback_to_checkpoint_tool accepts by id only a checkpoint of the agent's
\* external session.
\* Both look the checkpoint up by id alone and never compare its owner.
C37_RollbackStaysInExternalSession ==
    [][ /\ ( /\ steps' = steps + 1
             /\ last'.op = "rollback_to_checkpoint"
             /\ last'.ok )
          => ExternalSessionOfCheckpoint(last'.cp) = last'.ext
        /\ ( /\ steps' = steps + 1
             /\ last'.op = "rollback_to_checkpoint_tool"
             /\ last'.ok
             /\ last'.name = None )
          => ExternalSessionOfCheckpoint(last'.cp) = Agent.external_session_id ]_vars

----------------------------------------------------------------------------
(* Rollback requests reported (Spec) *)

\* C38 (as stated): handle_agent_response returns True only for an agent on
\* which run was called and whose last turn made, through
\* rollback_to_checkpoint_tool, a request that was not reported before; the
\* checkpoint it leaves for the caller is the one requested.
\* The request is kept in the session state, which is saved with the internal
\* session and copied into checkpoints: an agent resumed from the session, or
\* forked from such a checkpoint, is made with the request already set.
C38_OneReportPerRequest ==
    [][ ( /\ steps' = steps + 1
          /\ last'.op = "handle_agent_response"
          /\ last'.ok )
        => /\ Agent.runs > 0
           /\ turn.requested # NoId
           /\ last'.cp = turn.requested ]_vars


----------------------------------------------------------------------------
(* Properties of the session-state checkpoint tools (CheckpointToolSpec) *)

KeptCheckpoints == agent_session_state.checkpoints

\* The entries are in the order they were created in
InCreationOrder(list) ==
    \A i, j \in 1..Len(list) : i < j => list[i].created < list[j].created

\* C39: after any sequence of create_checkpoint, delete_checkpoint and
\* rollback_to_checkpoint calls the checkpoints list of the session state
\* holds at most max_checkpoints entries, in creation order; a
\* create_checkpoint on a full list drops the oldest entry and appends the
\* new one, and a rollback_to_checkpoint that finds its target leaves the
\* prefix of the list that ends at the target.
C39_AtMostMaxCheckpointsInCreationOrder ==
    /\ [](/\ Len(KeptCheckpoints) <= agent_session_state.max_checkpoints
          /\ InCreationOrder(KeptCheckpoints))
    /\ [][ /\ ( /\ tool_called'.op = "create_checkpoint"
                /\ tool_called'.created = tool_called.created + 1
                /\ Len(KeptCheckpoints) = agent_session_state.max_checkpoints )
              => /\ Len(KeptCheckpoints') = Len(KeptCheckpoints)
                 /\ \A i \in 1..(Len(KeptCheckpoints) - 1) :
                       KeptCheckpoints'[i] = KeptCheckpoints[i + 1]
                 /\ KeptCheckpoints'[Len(KeptCheckpoints')].checkpoint_id
                       = tool_called'.checkpoint_id
           /\ ( /\ tool_called'.op = "rollback_to_checkpoint"
                /\ tool_called'.ok )
              => /\ tool_called'.index \in 1..Len(KeptCheckpoints)
                 /\ StartsWith(KeptCheckpoints[tool_called'.index].checkpoint_id,
                               tool_called'.checkpoint_id)
                 /\ KeptCheckpoints' =
                       SubSeq(KeptCheckpoints, 1, tool_called'.index) ]_vars

\* More checkpoints were made than the list may hold, and a
\* rollback_to_checkpoint cut the list after its first entry, which is not the
\* first checkpoint made
C39_Witness ==
    /\ tool_called.op = "rollback_to_checkpoint"
    /\ tool_called.ok
    /\ tool_called.index = 1
    /\ tool_called.created > agent_session_state.max_checkpoints
    /\ agent_session_state.max_checkpoints = 2
    /\ Len(KeptCheckpoints) = 1
    /\ KeptCheckpoints[1].created > 1

====
